---------------------------- MODULE Spec2Model ----------------------------
(***************************************************************************)
(* A model of ep_docx_html_customizer: the table flattener of              *)
(* customizeDocument / exports.import, the tbljson token encoding, the     *)
(* clipboard paste of already rendered table lines, the list numbering     *)
(* hooks and the ordered-list flattener.                                   *)
(*                                                                         *)
(* Strings are sequences of one-character strings (or of character codes   *)
(* where bytes matter), so that parsing, trimming, joining and encoding    *)
(* are computed, not assumed.                                              *)
(***************************************************************************)
EXTENDS Integers, Sequences, FiniteSets, TLC

VARIABLES
  variant,          \* which copy of the table code runs: "common" | "import"
  tables,           \* document.querySelectorAll('table'): the source tables
  tblIdBase,        \* the run's rand() base of the table ids
  tableIdx,         \* forEach index over tables (0-based)
  phase,            \* "next" (between tables) | "rows" (inside one) | "off"
  rows,             \* tableNode.querySelectorAll('tr') of the current table
  numCols,          \* logical column count of the current table
  pendingRowspan,   \* carry counters, one per logical column
  rowIdx,           \* forEach index over rows (0-based)
  newLines,         \* lines emitted so far for the current table
  carryLog,         \* history: pendingRowspan after each processed row
  output,           \* tables already replaced: their source index and lines
  modified,         \* the run's modified flag
  attribValue,      \* the value of a tbljson attribute (a string)
  encPhase,         \* "attrib" | "class" | "collected" | "off"
  encodedBy,        \* which enc made the class: "common" | "clipboard" | "none"
  cls,              \* the class list carrying the tbljson- token
  collected,        \* the cc.doAttrib calls of collectContentPre
  pasteVariant,     \* which paste handler runs: "clipboard" | "part_002" | "off"
  needsTransformation, \* the clipboard HTML holds something customizeDocument converts
  destIds,          \* the tblIds of the destination document before the paste
  pasted,           \* doc.body: the class list (a sequence of classes) of each element
  pastePhase,       \* "html" | "customized" | "inserted" | "off"
  elIdx,            \* tbljsonElements.forEach index (0-based)
  tblIdMap,         \* regenerateTableIds: old tblId -> new tblId, a set of pairs
  inserted,         \* what the paste put into the document: class lists
  start,            \* state.start of the content collector: [defined, val]
  listNesting,      \* state.listNesting: [defined, val]
  listAttr,         \* state.lineAttributes.list: "none" | "number" | "bullet"
  open,             \* the elements being collected, outermost first
  counted,          \* history: counted items since the last top-level ol began
  nestedEntered,    \* history: numbered lists entered inside it since then
  wasReset,         \* history: the Pre hook has deleted a state.start that was set
  lists,            \* the top-level ol elements of the document
  allOrderedLists,  \* document.querySelectorAll('ol'), in document order
  olIdx,            \* forEach index over allOrderedLists (0-based)
  flat,             \* per top-level ol: whether it is replaced, and by what
  listModified,     \* the modified flag, as the list stage sets it
  imgVariant,       \* which copy of the image code runs: "common" | "import" | "off"
  images,           \* document.querySelectorAll('img'): the source images
  imgIdx,           \* forEach index over images (0-based)
  imgOut,           \* per source image: the nodes that stand in its place
  imgModified,      \* the modified flag, as the image stage sets it
  pipeVariant,      \* which pipeline runs: "common" | "import" | "off"
  pipeInput,        \* the document as parsed, before any stage
  doc,              \* the document: the child nodes of its body
  stage,            \* the stage that runs next, "returned" at the end
  pipeModified,     \* the modified flag of the run
  changedBy,        \* history: the stages that have left the tree different
  ran,              \* history: the stages that have run to their end
  destFile,         \* exports.import: what destFile holds
  writes,           \* exports.import: the calls of writeFile that succeeded
  result,           \* what the run returned: "none" | "true" | "false"
  threwAt,          \* exports.import: the stage where an exception was thrown
  alignInput,       \* the tree given to the alignment stage
  alignTree,        \* the tree after alignPasses runs of the alignment stage
  alignPasses,      \* the runs of the alignment stage so far
  colorVariant,     \* whose parseColorToRgb runs: "common" | "import" | "off"
  colorInput,       \* the colour: its string and the RGB value it denotes
  colorPhase,       \* "parse" | "map" | "off"
  parsedRgb,        \* what parseColorToRgb returned
  mappedColors,      \* what findNearestColor returned, run after run
  anchors,          \* document.querySelectorAll('a[href]'): the href of each anchor
  linkIdx,          \* forEach index over anchors (0-based)
  linkOut,          \* per anchor: the hyperlink- class of its span, <<>> when skipped
  runVariant,       \* which paste handler runs: "clipboard" | "part_002" | "off"
  pasteRuns,        \* per paste event: the image callbacks and whether .then has run
  editorLog,        \* history: the runs whose finalHtml was inserted, in that order
  toastRun,         \* the run that last wrote the toast 'clipboard-images', 0 for none
  edLines,          \* rep.lines: the lines of the editor document
  timers,           \* the setTimeout callbacks not yet run, each with its newLine
  softBreaks,       \* history: the Shift+Enter keystrokes handled so far
  fired,            \* history: the soft breaks whose timer has run
  edits,            \* history: the other edits applied so far
  tpVariant,        \* which paste handler runs: "clipboard" | "part_002" | "off"
  tpBefore,         \* history: the lines of the editor before the paste
  tpLines,          \* repNow.lines: the lines of the editor
  selStart,         \* repNow.selStart
  selEnd,           \* repNow.selEnd
  segments,         \* the text segments extracted from finalHtml
  tpPhase,          \* "ready" | "pasted" | "aborted" | "off"
  insertedText,     \* history: the text the insertion loop has put into the line
  rateLimitStore,   \* _rateLimitStore: for each ip the times stored
  clock,            \* Date.now()
  fetchAvailable,   \* _getFetch() returns a function
  lastStatus,       \* the status of the last response, 0 before the first, -1 without server
  upstream          \* history: for each ip the times of the upstream fetches

tblVars == <<variant, tables, tblIdBase, tableIdx, phase, rows, numCols,
             pendingRowspan, rowIdx, newLines, carryLog, output, modified>>

encVars == <<attribValue, encPhase, encodedBy, cls, collected>>

pasteVars == <<pasteVariant, needsTransformation, destIds, pasted, pastePhase,
               elIdx, tblIdMap, inserted>>

hookVars == <<start, listNesting, listAttr, open, counted, nestedEntered, wasReset>>

listVars == <<lists, allOrderedLists, olIdx, flat, listModified>>

imgVars == <<imgVariant, images, imgIdx, imgOut, imgModified>>

pipeVars == <<pipeVariant, pipeInput, doc, stage, pipeModified, changedBy, ran, destFile,
              writes, result, threwAt>>

alignVars == <<alignInput, alignTree, alignPasses>>

colorVars == <<colorVariant, colorInput, colorPhase, parsedRgb, mappedColors>>

linkVars == <<anchors, linkIdx, linkOut>>

runVars == <<runVariant, pasteRuns, editorLog, toastRun>>

softVars == <<edLines, timers, softBreaks, fired, edits>>

tpVars == <<tpVariant, tpBefore, tpLines, selStart, selEnd, segments, tpPhase,
            insertedText>>

pxVars == <<rateLimitStore, clock, fetchAvailable, lastStatus, upstream>>

vars == <<tblVars, encVars, pasteVars, hookVars, listVars, imgVars, pipeVars, alignVars,
          colorVars, linkVars, runVars, softVars, tpVars, pxVars>>

(* what each part of the program leaves alone *)
notTblVars ==
  <<encVars, pasteVars, hookVars, listVars, imgVars, pipeVars, alignVars, colorVars,
    linkVars, runVars, softVars, tpVars, pxVars>>

notEncVars ==
  <<tblVars, pasteVars, hookVars, listVars, imgVars, pipeVars, alignVars, colorVars,
    linkVars, runVars, softVars, tpVars, pxVars>>

notPasteVars ==
  <<tblVars, encVars, hookVars, listVars, imgVars, pipeVars, alignVars, colorVars,
    linkVars, runVars, softVars, tpVars, pxVars>>

notHookVars ==
  <<tblVars, encVars, pasteVars, listVars, imgVars, pipeVars, alignVars, colorVars,
    linkVars, runVars, softVars, tpVars, pxVars>>

notListVars ==
  <<tblVars, encVars, pasteVars, hookVars, imgVars, pipeVars, alignVars, colorVars,
    linkVars, runVars, softVars, tpVars, pxVars>>

notImgVars ==
  <<tblVars, encVars, pasteVars, hookVars, listVars, pipeVars, alignVars, colorVars,
    linkVars, runVars, softVars, tpVars, pxVars>>

notAlignVars ==
  <<tblVars, encVars, pasteVars, hookVars, listVars, imgVars, pipeVars, colorVars,
    linkVars, runVars, softVars, tpVars, pxVars>>

notColorVars ==
  <<tblVars, encVars, pasteVars, hookVars, listVars, imgVars, pipeVars, alignVars,
    linkVars, runVars, softVars, tpVars, pxVars>>

notPipeVars ==
  <<tblVars, encVars, pasteVars, hookVars, listVars, imgVars, alignVars, colorVars,
    linkVars, runVars, softVars, tpVars, pxVars>>

notLinkVars ==
  <<tblVars, encVars, pasteVars, hookVars, listVars, imgVars, pipeVars, alignVars,
    colorVars, runVars, softVars, tpVars, pxVars>>

notRunVars ==
  <<tblVars, encVars, pasteVars, hookVars, listVars, imgVars, pipeVars, alignVars,
    colorVars, linkVars, softVars, tpVars, pxVars>>

notSoftVars ==
  <<tblVars, encVars, pasteVars, hookVars, listVars, imgVars, pipeVars, alignVars,
    colorVars, linkVars, runVars, tpVars, pxVars>>

notTpVars ==
  <<tblVars, encVars, pasteVars, hookVars, listVars, imgVars, pipeVars, alignVars,
    colorVars, linkVars, runVars, softVars, pxVars>>

notPxVars ==
  <<tblVars, encVars, pasteVars, hookVars, listVars, imgVars, pipeVars, alignVars,
    colorVars, linkVars, runVars, softVars, tpVars>>

-----------------------------------------------------------------------------
(* Bounds of the model *)

MaxRows == 3        \* rows of a table
MaxCells == 2       \* cells of a row
MaxTableCells == 3  \* cells of a table
MaxRandLen == 1     \* characters of a rand() result
MaxContent == 2     \* characters of a cell's content
MaxCellRows == 2    \* rows of a table, where the contents vary
MaxCellCells == 2   \* cells of a table, where the contents vary
MaxTables == 3      \* tables of a document
MaxValueLen == 3    \* characters of a free tbljson attribute value
MaxPasteEls == 2    \* elements of the pasted HTML
MaxOpen == 4        \* elements open at a time in the content collector
MaxStart == 3       \* state.start up to which new elements are collected
MaxItems == 2       \* children of a top-level ol
MaxImages == 2      \* images of a document
MaxDocEls == 2      \* top-level elements of a document of the pipeline
MaxAlignDepth == 2  \* aligned elements inside one another
MaxColorRuns == 2   \* runs of findNearestColor on one colour
MaxAnchors == 1     \* anchors of a document
MaxPastes == 2      \* paste events
MaxRunImages == 2   \* image spans of one paste
MaxSoftBreaks == 2  \* Shift+Enter keystrokes
MaxEdits == 1       \* other edits to the document
MaxLineLen == 2     \* characters of a line
MaxSegments == 2    \* text segments of a paste
MaxBusyRequests == 32   \* requests of the first client let through
MaxOtherRequests == 1   \* requests of another client let through
ClockStep == 30000      \* the clock goes in steps of 30 s
MaxNow == 60000         \* the last time of the clock

-----------------------------------------------------------------------------
(* Characters and small string helpers *)

DELIMITER == "U+241F"
ZWSP == "U+200B"
NBSP == "U+00A0"
LF == "LF"
BR == "<br>"
NBSP_SPAN == "<span>&nbsp;</span>"

Min(a, b) == IF a < b THEN a ELSE b
Max(a, b) == IF a > b THEN a ELSE b

Range(s) == {s[i] : i \in 1..Len(s)}

DigitChars == <<"0", "1", "2", "3", "4", "5", "6", "7", "8", "9">>

IsDigit(c) == c \in Range(DigitChars)

DigitVal(c) == (CHOOSE i \in 1..Len(DigitChars) : DigitChars[i] = c) - 1

IsSpace(c) == c \in {" ", LF, NBSP}

(* String(n) for an integer: its decimal digits, with a leading "-" *)
RECURSIVE NatToString(_)
NatToString(n) ==
  IF n < 10 THEN <<DigitChars[n + 1]>>
  ELSE NatToString(n \div 10) \o <<DigitChars[(n % 10) + 1]>>

IntToString(n) == IF n < 0 THEN <<"-">> \o NatToString(-n) ELSE NatToString(n)

(* parseInt(s, 10): leading white space, an optional sign, then the longest
   run of digits; NaN when there is no digit *)
RECURSIVE SkipSpaces(_)
SkipSpaces(s) ==
  IF s # <<>> /\ IsSpace(Head(s)) THEN SkipSpaces(Tail(s)) ELSE s

RECURSIVE ParseDigits(_, _)
ParseDigits(s, acc) ==
  IF s # <<>> /\ IsDigit(Head(s))
    THEN ParseDigits(Tail(s), acc * 10 + DigitVal(Head(s)))
    ELSE acc

parseInt(s) ==
  LET t == SkipSpaces(s)
      neg == t # <<>> /\ Head(t) = "-"
      u == IF t # <<>> /\ Head(t) \in {"-", "+"} THEN Tail(t) ELSE t
  IN IF u = <<>> \/ ~IsDigit(Head(u))
       THEN [nan |-> TRUE, val |-> 0]
       ELSE [nan |-> FALSE,
             val |-> IF neg THEN -ParseDigits(u, 0) ELSE ParseDigits(u, 0)]

(* getAttribute(name) || '1': an absent (null) or empty attribute is <<>> *)
AttrOrOne(a) == IF a = <<>> THEN <<"1">> ELSE a

(* rand(): Math.random().toString(36).slice(2, 8), digits and lower-case
   letters only, possibly empty *)
RandChars == {"a"}

RECURSIVE SeqsUpTo(_, _)
SeqsUpTo(S, n) ==
  IF n = 0 THEN {<<>>}
  ELSE LET shorter == SeqsUpTo(S, n - 1)
       IN shorter \cup {Append(s, c) : s \in {t \in shorter : Len(t) = n - 1}, c \in S}

Rand(maxLen) == SeqsUpTo(RandChars, maxLen)


-----------------------------------------------------------------------------
(* Cell content: the child nodes of a td/th, as a sequence of characters and
   <br> elements.  A string of HTML is the same kind of sequence. *)

(* s.replace(/\r?\n/g, ' ') *)
ReplaceNewlines(s) == [i \in 1..Len(s) |-> IF s[i] = LF THEN " " ELSE s[i]]

RECURSIVE TrimLeft(_, _)
TrimLeft(s, ws) ==
  IF s # <<>> /\ Head(s) \in ws THEN TrimLeft(Tail(s), ws) ELSE s

RECURSIVE TrimRight(_, _)
TrimRight(s, ws) ==
  IF s # <<>> /\ s[Len(s)] \in ws THEN TrimRight(SubSeq(s, 1, Len(s) - 1), ws) ELSE s

(* trim() of a string of HTML source: a no-break space is written &nbsp;
   there and is not white space *)
TrimHtml(s) == TrimRight(TrimLeft(s, {" ", LF}), {" ", LF})

(* trim() of text: U+00A0 is white space *)
TrimText(s) == TrimRight(TrimLeft(s, {" ", LF, NBSP}), {" ", LF, NBSP})

(* tmp.innerHTML = html: the child nodes, text runs and <br> elements *)
RECURSIVE TextRunLen(_)
TextRunLen(s) == IF s = <<>> \/ Head(s) = BR THEN 0 ELSE 1 + TextRunLen(Tail(s))

RECURSIVE ChildNodes(_)
ChildNodes(s) ==
  IF s = <<>> THEN <<>>
  ELSE IF Head(s) = BR
    THEN <<[nodeType |-> 1, text |-> <<BR>>]>> \o ChildNodes(Tail(s))
    ELSE LET n == TextRunLen(s)
         IN <<[nodeType |-> 3, text |-> SubSeq(s, 1, n)]>>
              \o ChildNodes(SubSeq(s, n + 1, Len(s)))

RECURSIVE Join(_, _)
Join(parts, sep) ==
  IF parts = <<>> THEN <<>>
  ELSE IF Len(parts) = 1 THEN parts[1]
  ELSE parts[1] \o sep \o Join(Tail(parts), sep)

(* flatten / flattenParagraphs: text nodes trimmed and kept when non-empty,
   elements by their outerHTML, joined by one space *)
RECURSIVE FlattenParts(_)
FlattenParts(nodes) ==
  IF nodes = <<>> THEN <<>>
  ELSE LET n == Head(nodes)
           t == TrimText(ReplaceNewlines(n.text))
       IN (IF n.nodeType = 3
             THEN (IF t # <<>> THEN <<t>> ELSE <<>>)
             ELSE <<TrimHtml(ReplaceNewlines(n.text))>>)
          \o FlattenParts(Tail(nodes))

flatten(html) == TrimText(Join(FlattenParts(ChildNodes(html)), <<" ">>))

(* html.replace of the trailing run of <br> tags, each with its following
   white space, by '': the match starts at the leftmost <br> after which
   only <br> and white space follow *)
RECURSIVE TrailingBrRunStart(_, _)
TrailingBrRunStart(s, i) ==
  \* i: the candidate start; 0 when no <br> ends the string
  IF i < 1 \/ ~(s[i] = BR \/ IsSpace(s[i])) THEN 0
  ELSE LET further == TrailingBrRunStart(s, i - 1)
       IN IF further # 0 THEN further ELSE IF s[i] = BR THEN i ELSE 0

StripTrailingBr(s) ==
  LET k == TrailingBrRunStart(s, Len(s))
  IN IF k = 0 THEN s ELSE SubSeq(s, 1, k - 1)

(* html.replace(/<br\s*\/?>/gi, ' ') *)
ReplaceBr(s) == [i \in 1..Len(s) |-> IF s[i] = BR THEN " " ELSE s[i]]

(* probeDiv.textContent of a string of HTML without <br> *)
TextContent(s) == SelectSeq(s, LAMBDA c : c # BR)

visiblyEmpty(html) ==
  html = <<>> \/ TrimText(SelectSeq(TextContent(html), LAMBDA c : c # NBSP)) = <<>>

(* the blank placeholder cell of each copy *)
BlankCell(v) == IF v = "import" THEN <<" ", NBSP_SPAN>> ELSE <<NBSP_SPAN>>

(* transform_common.js: the html of one consumed source cell *)
NormaliseCommon(content) ==
  LET h0 == TrimHtml(ReplaceNewlines(content))
      h1 == flatten(h0)
      h2 == IF h1 = <<BR>> THEN <<>> ELSE h1
      h3 == IF h2 # <<>> THEN TrimText(ReplaceBr(StripTrailingBr(h2))) ELSE h2
  IN IF visiblyEmpty(h3) THEN BlankCell("common") ELSE h3

(* index.js: the same, with its own <br> handling and placeholder *)
NormaliseImport(content) ==
  LET h0 == TrimHtml(ReplaceNewlines(content))
      h1 == flatten(h0)
      h2 == IF h1 = <<BR>> THEN <<>> ELSE h1
      h3 == IF h2 # <<>> THEN ReplaceBr(TrimText(StripTrailingBr(h2))) ELSE h2
  IN IF visiblyEmpty(h3) THEN BlankCell("import") ELSE h3

Normalise(v, content) ==
  IF v = "import" THEN NormaliseImport(content) ELSE NormaliseCommon(content)

-----------------------------------------------------------------------------
(* Table -> tbljson conversion.  A table is the sequence of its tr rows, a
   row the sequence of its td/th cells, a cell its colspan and rowspan
   attributes as written and its content. *)

(* parseInt(attr || '1', 10), then "isNaN(span) || span < 1" gives 1 *)
SpanOf(attr) ==
  LET p == parseInt(AttrOrOne(attr))
  IN IF p.nan \/ p.val < 1 THEN 1 ELSE p.val

RECURSIVE getLogicalCols(_)
getLogicalCols(tr) ==
  IF tr = <<>> THEN 0 ELSE SpanOf(Head(tr).colspan) + getLogicalCols(Tail(tr))

RECURSIVE NumCols(_)
NumCols(trs) ==
  IF trs = <<>> THEN 0 ELSE Max(getLogicalCols(Head(trs)), NumCols(Tail(trs)))

(* one id for all the tables of the run *)
TblIdOfRun(base, idx) == base \o <<"-">> \o IntToString(0)

(* `${tblIdBase}-${tableIdx}` *)
TblId(base, idx) == base \o <<"-">> \o IntToString(idx)

(* the meta record of one emitted line *)
Meta(base, idx, row, cols) == [tblId |-> TblId(base, idx), row |-> row, cols |-> cols]

(* cellHTMLs.push(html) in transform_common.js; cellContents[col] = html,
   on an array of numCols holes, in index.js *)
PutCell(v, cells, col, html) ==
  IF v = "import" THEN [cells EXCEPT ![col + 1] = html] ELSE Append(cells, html)

NoCells(v, n) == IF v = "import" THEN [i \in 1..n |-> <<>>] ELSE <<>>

(* a carry counter that is never decremented *)
CarryStepStuck(pend, col) == pend

(* pendingRowspan[col]-- *)
CarryStep(pend, col) == [pend EXCEPT ![col + 1] = @ - 1]

(* if (rowspan > 1) pendingRowspan[col] = rowspan - 1 *)
RegisterRowspan(pend, col, rowspan) ==
  IF rowspan > 1 THEN [pend EXCEPT ![col + 1] = rowspan - 1] ELSE pend

(* the extra columns of a colspan: extra = 1 .. while extra < colspan and
   col + extra < numCols *)
RECURSIVE PutExtras(_, _, _, _, _, _, _)
PutExtras(v, acc, col, extra, colspan, rowspan, n) ==
  IF ~(extra < colspan /\ col + extra < n) THEN acc
  ELSE PutExtras(v,
         [acc EXCEPT
            !.cells = PutCell(v, @, col + extra, BlankCell(v)),
            !.kinds[col + extra + 1] = "shadow",
            !.overlap = @ \/ acc.pend[col + extra + 1] > 0,
            !.pend = RegisterRowspan(@, col + extra, rowspan)],
         col, extra + 1, colspan, rowspan, n)

(* for (let col = 0; col < numCols; col++) { ... } over one row.  acc holds
   pendingRowspan (pend), the cells emitted, and for each column what filled
   it (kinds) and which source cell (src, 1-based, 0 for none). *)
RECURSIVE WalkRow(_, _, _, _, _, _)
WalkRow(v, rawCells, n, col, rawPtr, acc) ==
  IF col >= n THEN [acc EXCEPT !.consumed = Min(rawPtr, Len(rawCells))]
  ELSE IF acc.pend[col + 1] > 0
    THEN WalkRow(v, rawCells, n, col + 1, rawPtr,
           [acc EXCEPT !.pend = CarryStep(@, col),
                       !.cells = PutCell(v, @, col, BlankCell(v)),
                       !.kinds[col + 1] = "carry"])
  ELSE IF rawPtr >= Len(rawCells)
    THEN WalkRow(v, rawCells, n, col + 1, rawPtr + 1,
           [acc EXCEPT !.cells = PutCell(v, @, col, BlankCell(v)),
                       !.kinds[col + 1] = "missing"])
  ELSE LET cell == rawCells[rawPtr + 1]
           colspan == SpanOf(cell.colspan)
           rowspan == SpanOf(cell.rowspan)
           placed == [acc EXCEPT
                        !.cells = PutCell(v, @, col, Normalise(v, cell.content)),
                        !.kinds[col + 1] = "src",
                        !.src[col + 1] = rawPtr + 1,
                        !.pend = RegisterRowspan(@, col, rowspan)]
       IN WalkRow(v, rawCells, n, col + colspan, rawPtr + 1,
                  PutExtras(v, placed, col, 1, colspan, rowspan, n))

FlattenedRow(v, rawCells, n, pend) ==
  WalkRow(v, rawCells, n, 0, 0,
          [pend |-> pend, cells |-> NoCells(v, n),
           kinds |-> [i \in 1..n |-> "none"], src |-> [i \in 1..n |-> 0],
           overlap |-> FALSE, consumed |-> 0])

(* the text of an emitted line: the cell spans with a DELIMITER text node
   between them (transform_common.js), cellContents.join(DELIMITER)
   (index.js) *)
LineText(cells) == Join(cells, <<DELIMITER>>)

(* text.split(DELIMITER) *)
RECURSIVE Split(_, _)
Split(text, sep) ==
  IF \A i \in 1..Len(text) : text[i] # sep THEN <<text>>
  ELSE LET k == CHOOSE i \in 1..Len(text) :
                  text[i] = sep /\ \A j \in 1..(i - 1) : text[j] # sep
       IN <<SubSeq(text, 1, k - 1)>> \o Split(SubSeq(text, k + 1, Len(text)), sep)

-----------------------------------------------------------------------------
(* The tbljson token: base64 with two symbols substituted *)

(* the printable ASCII characters, in the order of their codes 32 .. 126 *)
Printable ==
  <<" ", "!", "\"", "#", "$", "%", "&", "'", "(", ")", "*", "+", ",", "-", ".", "/",
     "0", "1", "2", "3", "4", "5", "6", "7", "8", "9", ":", ";", "<", "=", ">", "?",
     "@", "A", "B", "C", "D", "E", "F", "G", "H", "I", "J", "K", "L", "M", "N", "O",
     "P", "Q", "R", "S", "T", "U", "V", "W", "X", "Y", "Z", "[", "BACKSLASH", "]", "^", "_",
     "BACKTICK", "a", "b", "c", "d", "e", "f", "g", "h", "i", "j", "k", "l", "m", "n", "o",
     "p", "q", "r", "s", "t", "u", "v", "w", "x", "y", "z", "{", "|", "}", "~">>

(* s.charCodeAt(i) *)
Code(c) == 31 + (CHOOSE i \in 1..Len(Printable) : Printable[i] = c)

(* String.fromCharCode(n) *)
CharOf(n) == Printable[n - 31]

(* the 64 symbols of base64, in the order of their values 0 .. 63 *)
Base64Symbols ==
  <<"A", "B", "C", "D", "E", "F", "G", "H", "I", "J", "K", "L", "M", "N", "O", "P",
     "Q", "R", "S", "T", "U", "V", "W", "X", "Y", "Z", "a", "b", "c", "d", "e", "f",
     "g", "h", "i", "j", "k", "l", "m", "n", "o", "p", "q", "r", "s", "t", "u", "v",
     "w", "x", "y", "z", "0", "1", "2", "3", "4", "5", "6", "7", "8", "9", "+", "/">>

SymbolValue(c) == (CHOOSE i \in 1..Len(Base64Symbols) : Base64Symbols[i] = c) - 1

(* btoa(s), and Buffer.from(s).toString('base64') of an ASCII string: three
   bytes make four symbols, the last group is padded with "=" *)
RECURSIVE Btoa(_)
Btoa(s) ==
  IF s = <<>> THEN <<>>
  ELSE LET n == Min(3, Len(s))
           v == Code(s[1]) * 65536
                  + (IF n >= 2 THEN Code(s[2]) * 256 ELSE 0)
                  + (IF n = 3 THEN Code(s[3]) ELSE 0)
       IN <<Base64Symbols[(v \div 262144) + 1],
            Base64Symbols[((v \div 4096) % 64) + 1],
            IF n >= 2 THEN Base64Symbols[((v \div 64) % 64) + 1] ELSE "=",
            IF n = 3 THEN Base64Symbols[(v % 64) + 1] ELSE "=">>
            \o Btoa(SubSeq(s, n + 1, Len(s)))

(* the bytes of a run of base64 symbols: four symbols make three bytes, a
   last group of two or three symbols makes one or two *)
RECURSIVE AtobBytes(_)
AtobBytes(t) ==
  IF Len(t) < 2 THEN <<>>
  ELSE LET n == Min(4, Len(t))
           v == SymbolValue(t[1]) * 262144 + SymbolValue(t[2]) * 4096
                  + (IF n >= 3 THEN SymbolValue(t[3]) * 64 ELSE 0)
                  + (IF n = 4 THEN SymbolValue(t[4]) ELSE 0)
       IN SubSeq(<<v \div 65536, (v \div 256) % 256, v % 256>>, 1, n - 1)
            \o AtobBytes(SubSeq(t, n + 1, Len(t)))

(* atob(t): one or two "=" are dropped from the end of a text whose length
   is a multiple of 4; a character outside the 64 symbols, or a length of
   1 modulo 4, throws.  A byte outside the printable range, which no
   encoded printable string decodes to, is reported like a throw. *)
Atob(t) ==
  LET pad == IF Len(t) % 4 # 0 \/ Len(t) = 0 THEN 0
             ELSE IF t[Len(t)] # "=" THEN 0
             ELSE IF t[Len(t) - 1] = "=" THEN 2 ELSE 1
      body == SubSeq(t, 1, Len(t) - pad)
  IN IF \/ Len(body) % 4 = 1
        \/ \E i \in 1..Len(body) : body[i] \notin Range(Base64Symbols)
       THEN [ok |-> FALSE, text |-> <<>>]
       ELSE LET bytes == AtobBytes(body)
            IN IF \E i \in 1..Len(bytes) : bytes[i] \notin 32..126
                 THEN [ok |-> FALSE, text |-> <<>>]
                 ELSE [ok |-> TRUE, text |-> [i \in 1..Len(bytes) |-> CharOf(bytes[i])]]

(* s.replace(/a/g, b) for one-character a and b *)
ReplaceAll(s, a, b) == [i \in 1..Len(s) |-> IF s[i] = a THEN b ELSE s[i]]

(* enc of transform_common.js and index.js *)
enc(s) == ReplaceAll(ReplaceAll(Btoa(s), "+", "-"), "/", "_")

(* enc of the clipboard hooks (part_002): its second replace turns "_" into
   "_" *)
encClipboard(s) == ReplaceAll(ReplaceAll(Btoa(s), "+", "-"), "_", "_")

(* dec, as read with the reverse substitution left out *)
decPlain(s) == Atob(s)

(* dec of the clipboard hooks: atob after the reverse substitution, null
   (ok = FALSE) when atob throws *)
dec(s) == Atob(ReplaceAll(ReplaceAll(s, "-", "+"), "_", "/"))

(* if (decoded): neither null nor the empty string *)
Truthy(d) == d.ok /\ d.text # <<>>

(* JSON.stringify of a metadata record {tblId, row, cols} *)
JSONStringify(meta) ==
  <<"{", "\"", "t", "b", "l", "I", "d", "\"", ":", "\"">> \o meta.tblId
    \o <<"\"", ",", "\"", "r", "o", "w", "\"", ":">> \o IntToString(meta.row)
    \o <<",", "\"", "c", "o", "l", "s", "\"", ":">> \o IntToString(meta.cols)
    \o <<"}">>

TBLJSON_PREFIX == <<"t", "b", "l", "j", "s", "o", "n", "-">>

TBLCELL_PREFIX == <<"t", "b", "l", "C", "e", "l", "l", "-">>

StartsWith(s, prefix) ==
  Len(s) >= Len(prefix) /\ SubSeq(s, 1, Len(prefix)) = prefix

(* the regular expression of the hook, for tbljson- and for tblCell-: the
   first class (at the start or after a space, up to the next space) that
   starts with the prefix, <<>> when there is none *)
FirstClass(classes, prefix) ==
  LET parts == Split(classes, " ")
      hits == {i \in 1..Len(parts) : StartsWith(parts[i], prefix)}
  IN IF hits = {} THEN <<>>
     ELSE <<parts[CHOOSE i \in hits : \A j \in hits : i <= j]>>

(* cls.substring(8) *)
TokenOf(class) == SubSeq(class, 9, Len(class))

-----------------------------------------------------------------------------
(* The token's way from the attribute to the class and back *)

EncIdle ==
  /\ attribValue = <<>> /\ encPhase = "off" /\ encodedBy = "none"
  /\ cls = <<>> /\ collected = <<>>

(* customizeDocument, index.js: the class of a flattened line's cells is
   made of enc(JSON.stringify(meta)) *)
EncodeMeta(metaTexts) ==
  /\ encPhase = "attrib" /\ attribValue \in metaTexts
  /\ cls' = TBLJSON_PREFIX \o enc(attribValue) \o <<" ">> \o TBLCELL_PREFIX \o <<"0">>
  /\ encodedBy' = "common"
  /\ encPhase' = "class"
  /\ UNCHANGED <<attribValue, collected>>
  /\ UNCHANGED notEncVars

(* aceAttribsToClasses of the clipboard hooks, for the key tbljson *)
aceAttribsToClasses ==
  /\ encPhase = "attrib"
  /\ cls' = TBLJSON_PREFIX \o encClipboard(attribValue)
  /\ encodedBy' = "clipboard"
  /\ encPhase' = "class"
  /\ UNCHANGED <<attribValue, collected>>
  /\ UNCHANGED notEncVars

(* collectContentPre of the clipboard hooks: the tbljson- class is decoded
   and, if the result is truthy, applied as the attribute tbljson; a
   tblCell- class is applied as td *)
tableCollectContentPre ==
  /\ encPhase = "class" /\ cls # <<>>
  /\ LET tblJsonClass == FirstClass(cls, TBLJSON_PREFIX)
         decoded == IF tblJsonClass = <<>> THEN [ok |-> FALSE, text |-> <<>>]
                    ELSE dec(TokenOf(tblJsonClass[1]))
         tblCellClass == FirstClass(cls, TBLCELL_PREFIX)
     IN collected' =
          (IF Truthy(decoded) THEN <<[key |-> "tbljson", value |-> decoded.text]>>
           ELSE <<>>)
          \o (IF tblCellClass = <<>> THEN <<>>
              ELSE <<[key |-> "td", value |-> TokenOf(tblCellClass[1])]>>)
  /\ encPhase' = "collected"
  /\ UNCHANGED <<attribValue, encodedBy, cls>>
  /\ UNCHANGED notEncVars

-----------------------------------------------------------------------------
(* The paste of clipboard HTML that holds rendered table lines *)

(* the text of s up to, not including, the first c; all of s when there is
   none *)
UpTo(s, c) ==
  IF c \notin Range(s) THEN s
  ELSE SubSeq(s, 1, (CHOOSE i \in 1..Len(s) : s[i] = c /\ \A j \in 1..(i - 1) : s[j] # c) - 1)

IsNumber(s) == s # <<>> /\ \A i \in 1..Len(s) : IsDigit(s[i])

(* JSON.parse of the text of a metadata record, what JSON.stringify writes
   for {tblId, row, cols}; any other text throws or gives a value without
   tblId, which regenerateTableIds treats alike (ok = FALSE) *)
JSONParse(text) ==
  LET k1 == <<"{", "\"", "t", "b", "l", "I", "d", "\"", ":", "\"">>
      k2 == <<"\"", ",", "\"", "r", "o", "w", "\"", ":">>
      k3 == <<",", "\"", "c", "o", "l", "s", "\"", ":">>
      r1 == SubSeq(text, Len(k1) + 1, Len(text))
      id == UpTo(r1, "\"")
      r2 == SubSeq(r1, Len(id) + 1, Len(r1))
      r3 == SubSeq(r2, Len(k2) + 1, Len(r2))
      row == UpTo(r3, ",")
      r4 == SubSeq(r3, Len(row) + 1, Len(r3))
      r5 == SubSeq(r4, Len(k3) + 1, Len(r4))
      cols == UpTo(r5, "}")
      r6 == SubSeq(r5, Len(cols) + 1, Len(r5))
      none == [ok |-> FALSE, meta |-> [tblId |-> <<>>, row |-> 0, cols |-> 0]]
  IN IF /\ StartsWith(text, k1) /\ StartsWith(r2, k2) /\ StartsWith(r4, k3)
        /\ IsNumber(row) /\ IsNumber(cols) /\ r6 = <<"}">>
       THEN [ok |-> TRUE,
             meta |-> [tblId |-> id, row |-> parseInt(row).val, cols |-> parseInt(cols).val]]
       ELSE none

(* tblIdMap.has(id), tblIdMap.get(id) *)
MapHas(map, id) == \E e \in map : e[1] = id

MapGet(map, id) == (CHOOSE e \in map : e[1] = id)[2]

(* the oldClasses.forEach body of regenerateTableIds for one class, with
   the identifier rand() + rand() would mint: the new class and the map *)
RegenerateClass(class, map, fresh) ==
  LET kept == [class |-> class, map |-> map]
      decoded == dec(TokenOf(class))
      parsed == JSONParse(decoded.text)
  IN IF ~StartsWith(class, TBLJSON_PREFIX) THEN kept
     ELSE IF ~Truthy(decoded) THEN kept
     ELSE IF ~(parsed.ok /\ parsed.meta.tblId # <<>>) THEN kept
     ELSE LET map2 == IF MapHas(map, parsed.meta.tblId) THEN map
                       ELSE map \cup {<<parsed.meta.tblId, fresh>>}
              meta2 == [parsed.meta EXCEPT !.tblId = MapGet(map2, parsed.meta.tblId)]
          IN [class |-> TBLJSON_PREFIX \o encClipboard(JSONStringify(meta2)), map |-> map2]

(* the classes of one element, left to right *)
RECURSIVE RegenerateClasses(_, _, _)
RegenerateClasses(classes, map, fresh) ==
  IF classes = <<>> THEN [classes |-> <<>>, map |-> map]
  ELSE LET first == RegenerateClass(Head(classes), map, fresh)
           rest == RegenerateClasses(Tail(classes), first.map, fresh)
       IN [classes |-> <<first.class>> \o rest.classes, map |-> rest.map]

PasteIdle ==
  /\ pasteVariant = "off" /\ needsTransformation = FALSE /\ destIds = {}
  /\ pasted = <<>> /\ pastePhase = "off" /\ elIdx = 0 /\ tblIdMap = {}
  /\ inserted = <<>>

(* clipboard.js: if (!needsTransformation) return; the handler leaves the
   paste to the editor, which inserts the HTML as it is *)
PasteSkipped ==
  /\ pastePhase = "html" /\ pasteVariant = "clipboard" /\ ~needsTransformation
  /\ inserted' = pasted
  /\ pastePhase' = "inserted"
  /\ UNCHANGED <<pasteVariant, needsTransformation, destIds, pasted, elIdx, tblIdMap>>
  /\ UNCHANGED notPasteVars

(* customizeDocument(doc, {env: 'browser'}): no step of it rewrites a
   tbljson- class of an element that is not a table *)
PasteCustomize ==
  /\ pastePhase = "html"
  /\ pasteVariant = "clipboard" => needsTransformation
  /\ pastePhase' = "customized"
  /\ elIdx' = 0
  /\ tblIdMap' = {}
  /\ UNCHANGED <<pasteVariant, needsTransformation, destIds, pasted, inserted>>
  /\ UNCHANGED notPasteVars

(* part_002, regenerateTableIds: tbljsonElements.forEach, one element a
   step; rand() + rand() is any two results of rand() *)
RegenerateElement(maxLen) ==
  /\ pastePhase = "customized" /\ pasteVariant = "part_002"
  /\ elIdx < Len(pasted)
  /\ \E r1 \in Rand(maxLen), r2 \in Rand(maxLen) :
        \E done \in {RegenerateClasses(pasted[elIdx + 1], tblIdMap, r1 \o r2)} :
          /\ pasted' = [pasted EXCEPT ![elIdx + 1] = done.classes]
          /\ tblIdMap' = done.map
  /\ elIdx' = elIdx + 1
  /\ UNCHANGED <<pasteVariant, needsTransformation, destIds, pastePhase, inserted>>
  /\ UNCHANGED notPasteVars

(* cleanedHtml = doc.body.innerHTML, which the handler inserts *)
PasteInsert ==
  /\ pastePhase = "customized"
  /\ pasteVariant = "part_002" => elIdx = Len(pasted)
  /\ inserted' = pasted
  /\ pastePhase' = "inserted"
  /\ UNCHANGED <<pasteVariant, needsTransformation, destIds, pasted, elIdx, tblIdMap>>
  /\ UNCHANGED notPasteVars

-----------------------------------------------------------------------------
(* The list numbering hooks of fixOrderedList.js, and the content collector
   that calls them: for every element collectContentPre, the collector's
   own entry (a list is entered), the element's children,
   collectContentPost, the collector's own exit (the list is left) *)

Undefined == [defined |-> FALSE, val |-> 0]

Defined(n) == [defined |-> TRUE, val |-> n]

(* x || d for a number or undefined x *)
OrElse(x, d) == IF x.defined /\ x.val # 0 THEN x.val ELSE d

(* collectContentPre: state.start after the hook, as read with the test of
   state.listNesting left out *)
PreStartAnyList(tname, nesting, st) == IF tname # "ol" THEN st ELSE Undefined

(* collectContentPre: state.start after the hook *)
PreStart(tname, nesting, st) ==
  IF tname # "ol" THEN st
  ELSE IF OrElse(nesting, 0) = 0 THEN Undefined
  ELSE st

(* collectContentPost: state.start after the hook, as read with the test
   for listbreak left out *)
PostStartAnyItem(tname, listType, classes, st) ==
  IF tname # "li" THEN st
  ELSE IF listType # "number" THEN st
  ELSE Defined(OrElse(st, 1) + 1)

(* collectContentPost: state.start after the hook *)
PostStart(tname, listType, classes, st) ==
  IF tname # "li" THEN st
  ELSE IF listType # "number" THEN st
  ELSE IF "listbreak" \in Range(classes) THEN st
  ELSE Defined(OrElse(st, 1) + 1)

HookIdle ==
  /\ start = Undefined /\ listNesting = Undefined /\ listAttr = "none"
  /\ open = <<>> /\ counted = 0 /\ nestedEntered = 0 /\ wasReset = FALSE

Top == open[Len(open)]

SetTop(el) == [open EXCEPT ![Len(open)] = el]

(* exports.collectContentPre, called when the collector comes to an
   element *)
collectContentPre(tname, classes, maxOpen, maxStart) ==
  /\ Len(open) < maxOpen
  /\ open # <<>> => Top.step = "in"
  /\ OrElse(start, 0) < maxStart
  /\ start' = PreStart(tname, listNesting, start)
  /\ open' = Append(open, [tname |-> tname, cls |-> classes, step |-> "pre",
                            old |-> "none",
                            top |-> tname = "ol" /\ OrElse(listNesting, 0) = 0])
  /\ IF tname = "ol" /\ OrElse(listNesting, 0) = 0
       THEN counted' = 0 /\ nestedEntered' = 0
       ELSE UNCHANGED <<counted, nestedEntered>>
  /\ wasReset' = (wasReset \/ (start.defined /\ ~start'.defined))
  /\ UNCHANGED <<listNesting, listAttr>>
  /\ UNCHANGED notHookVars

(* the collector's _enterList for ul and ol: listNesting goes up, a
   numbered list does state.start = (state.start || 0) + 1 ("let
   _enterList() initialise it to 1"); other elements are only entered *)
CollectorEnter ==
  /\ open # <<>> /\ Top.step = "pre"
  /\ IF Top.tname \in {"ol", "ul"}
       THEN /\ listNesting' = Defined(OrElse(listNesting, 0) + 1)
            /\ listAttr' = IF Top.tname = "ol" THEN "number" ELSE "bullet"
            /\ start' = IF Top.tname = "ol" THEN Defined(OrElse(start, 0) + 1) ELSE start
            /\ nestedEntered' = IF Top.tname = "ol" /\ ~Top.top
                                  THEN nestedEntered + 1 ELSE nestedEntered
            /\ open' = SetTop([Top EXCEPT !.step = "in", !.old = listAttr])
       ELSE /\ open' = SetTop([Top EXCEPT !.step = "in"])
            /\ UNCHANGED <<listNesting, listAttr, start, nestedEntered>>
  /\ UNCHANGED <<counted, wasReset>>
  /\ UNCHANGED notHookVars

(* exports.collectContentPost, called when the element's children have
   been collected *)
collectContentPost ==
  /\ open # <<>> /\ Top.step = "in"
  /\ start' = PostStart(Top.tname, listAttr, Top.cls, start)
  /\ counted' = IF Top.tname = "li" /\ listAttr = "number" /\ Top.cls = <<>>
                   THEN counted + 1 ELSE counted
  /\ open' = SetTop([Top EXCEPT !.step = "post"])
  /\ UNCHANGED <<listNesting, listAttr, nestedEntered, wasReset>>
  /\ UNCHANGED notHookVars

(* the collector's _exitList for ul and ol: listNesting goes down and the
   enclosing list type comes back; state.start is left as it is *)
CollectorExit ==
  /\ open # <<>> /\ Top.step = "post"
  /\ IF Top.tname \in {"ol", "ul"}
       THEN /\ listNesting' = Defined(listNesting.val - 1)
            /\ listAttr' = Top.old
       ELSE UNCHANGED <<listNesting, listAttr>>
  /\ open' = SubSeq(open, 1, Len(open) - 1)
  /\ UNCHANGED <<start, counted, nestedEntered, wasReset>>
  /\ UNCHANGED notHookVars

-----------------------------------------------------------------------------
(* The ordered-list flattener.  An ol is [start, children], start the text
   of its attribute (<<>> when absent); a child is [tag, nested], nested
   the ol elements inside an li that are inside no other ol of it. *)

(* counter += 1, as read without the increment *)
NextCounterStuck(counter) == counter

(* counter += 1 *)
NextCounter(counter) == counter + 1

(* parseInt(olNode.getAttribute('start') || '1', 10), 1 when it is NaN *)
StartCounter(ol) ==
  LET startAttr == parseInt(AttrOrOne(ol.start))
  IN IF startAttr.nan THEN 1 ELSE startAttr.val

(* processOrderedList(olNode, depth): the fragment that replaces the ol, a
   div for every li child with its prefix, its margin (depth) and the
   fragments of the lists nested in it (processed at depth + 1) *)
RECURSIVE processOrderedList(_, _)
RECURSIVE ProcessChildren(_, _, _)
ProcessChildren(children, counter, depth) ==
  IF children = <<>> THEN <<>>
  ELSE LET child == Head(children)
       IN IF child.tag = "li"
            THEN <<[prefix |-> IntToString(counter) \o <<".", " ">>,
                    margin |-> depth,
                    inner |-> [j \in 1..Len(child.nested) |->
                                 processOrderedList(child.nested[j], depth + 1)]]>>
                   \o ProcessChildren(Tail(children), NextCounter(counter), depth)
            ELSE ProcessChildren(Tail(children), counter, depth)

processOrderedList(ol, depth) == ProcessChildren(ol.children, StartCounter(ol), depth)

(* the ol elements inside an ol, in document order *)
RECURSIVE Descendants(_)
RECURSIVE DescendantsOfAll(_)
DescendantsOfAll(ols) ==
  IF ols = <<>> THEN <<>>
  ELSE <<Head(ols)>> \o Descendants(Head(ols)) \o DescendantsOfAll(Tail(ols))

RECURSIVE DescendantsOfChildren(_)
DescendantsOfChildren(children) ==
  IF children = <<>> THEN <<>>
  ELSE DescendantsOfAll(Head(children).nested) \o DescendantsOfChildren(Tail(children))

Descendants(ol) == DescendantsOfChildren(ol.children)

(* document.querySelectorAll('ol'): every top-level ol, each followed by
   the ol elements inside it *)
RECURSIVE QueryOrderedLists(_, _)
QueryOrderedLists(tops, i) ==
  IF i > Len(tops) THEN <<>>
  ELSE <<[top |-> i, ol |-> tops[i]]>>
         \o [k \in 1..Len(Descendants(tops[i])) |-> [top |-> 0, ol |-> Descendants(tops[i])[k]]]
         \o QueryOrderedLists(tops, i + 1)

ListIdle ==
  /\ lists = <<>> /\ allOrderedLists = <<>> /\ olIdx = 0 /\ flat = <<>>
  /\ listModified = FALSE

(* forEach: a top-level ol is replaced in the document by its fragment *)
FlattenList ==
  /\ olIdx < Len(allOrderedLists)
  /\ allOrderedLists[olIdx + 1].top # 0
  /\ flat' = [flat EXCEPT ![allOrderedLists[olIdx + 1].top] =
                 [done |-> TRUE, divs |-> processOrderedList(allOrderedLists[olIdx + 1].ol, 0)]]
  /\ listModified' = TRUE
  /\ olIdx' = olIdx + 1
  /\ UNCHANGED <<lists, allOrderedLists>>
  /\ UNCHANGED notListVars

(* forEach: an ol inside another is reached after the outer one has been
   replaced; it is processed and replaced inside the removed subtree, which
   leaves the document as it is *)
FlattenDetachedList ==
  /\ olIdx < Len(allOrderedLists)
  /\ allOrderedLists[olIdx + 1].top = 0
  /\ listModified' = TRUE
  /\ olIdx' = olIdx + 1
  /\ UNCHANGED <<lists, allOrderedLists, flat>>
  /\ UNCHANGED notListVars

-----------------------------------------------------------------------------
(* The table stage of one run, a step per table and per row *)

CurrentTable == tables[tableIdx + 1]

Idle ==
  /\ rows = <<>> /\ numCols = 0 /\ pendingRowspan = <<>>
  /\ rowIdx = 0 /\ newLines = <<>> /\ carryLog = <<>>

ToIdle ==
  /\ rows' = <<>> /\ numCols' = 0 /\ pendingRowspan' = <<>>
  /\ rowIdx' = 0 /\ newLines' = <<>> /\ carryLog' = <<>>

(* if (!rows.length) return;  if (!numCols) return; *)
SkipTable ==
  /\ phase = "next" /\ tableIdx < Len(tables)
  /\ (Len(CurrentTable) = 0 \/ NumCols(CurrentTable) = 0)
  /\ tableIdx' = tableIdx + 1
  /\ UNCHANGED <<variant, tables, tblIdBase, phase, rows, numCols, pendingRowspan,
                 rowIdx, newLines, carryLog, output, modified>>
  /\ UNCHANGED notTblVars

BeginTable ==
  /\ phase = "next" /\ tableIdx < Len(tables)
  /\ Len(CurrentTable) # 0 /\ NumCols(CurrentTable) # 0
  /\ rows' = CurrentTable
  /\ numCols' = NumCols(CurrentTable)
  /\ pendingRowspan' = [i \in 1..numCols' |-> 0]
  /\ newLines' = <<>>
  /\ carryLog' = <<>>
  /\ rowIdx' = 0
  /\ phase' = "rows"
  /\ UNCHANGED <<variant, tables, tblIdBase, tableIdx, output, modified>>
  /\ UNCHANGED notTblVars

(* rows.forEach((rowNode, rowIdx) => { ... newLines.push(lineDiv) }) *)
FlattenRow ==
  /\ phase = "rows" /\ rowIdx < Len(rows)
  /\ \E r \in {FlattenedRow(variant, rows[rowIdx + 1], numCols, pendingRowspan)} :
        /\ pendingRowspan' = r.pend
        /\ carryLog' = Append(carryLog, r.pend)
        /\ newLines' = Append(newLines,
              [meta |-> Meta(tblIdBase, tableIdx, rowIdx, numCols),
               cells |-> r.cells, kinds |-> r.kinds, src |-> r.src,
               overlap |-> r.overlap, consumed |-> r.consumed])
  /\ rowIdx' = rowIdx + 1
  /\ UNCHANGED <<variant, tables, tblIdBase, tableIdx, phase, rows, numCols,
                 output, modified>>
  /\ UNCHANGED notTblVars

(* if (newLines.length) { tableNode.parentNode.replaceChild(frag, tableNode);
   modified = true; } *)
ReplaceTable ==
  /\ phase = "rows" /\ rowIdx = Len(rows)
  /\ IF Len(newLines) > 0
       THEN /\ output' = Append(output, [src |-> tableIdx, lines |-> newLines,
                                         carry |-> pendingRowspan])
            /\ modified' = TRUE
       ELSE UNCHANGED <<output, modified>>
  /\ tableIdx' = tableIdx + 1
  /\ phase' = "next"
  /\ ToIdle
  /\ UNCHANGED <<variant, tables, tblIdBase>>
  /\ UNCHANGED notTblVars

TableNext == SkipTable \/ BeginTable \/ FlattenRow \/ ReplaceTable

-----------------------------------------------------------------------------
(* The image stage.  An img is [src, width, height, css]: the src attribute
   (<<>> when absent), getAttribute('width') || style.width and the same
   for the height (<<>> when neither is set), and the w and h of the
   cssImageSizeMap entry of its class (<<>> for null or no entry). *)

(* the outcomes of rand() the image ids are built from: no character
   (Math.random() = 0), five, and the six of slice(2, 8) *)
RandOutcomes ==
  {<<>>, <<"a", "a", "a", "a", "a">>, <<"a", "a", "a", "a", "a", "a">>}

(* crypto.randomUUID(): 36 characters *)
RandomUUID == [i \in 1..36 |-> IF i \in {9, 14, 19, 24} THEN "-" ELSE "a"]

(* Math.random().toString(36).slice(2) + '-' + ...slice(2, 10), from two
   outcomes of the generator *)
FallbackId(r1, r2) == r1 \o <<"-">> \o r2

(* the image ids a run can mint *)
ImageIds(v) ==
  IF v = "import"
    THEN {RandomUUID} \cup {FallbackId(r1, r2) : r1 \in RandOutcomes, r2 \in RandOutcomes}
    ELSE {r1 \o r2 : r1 \in RandOutcomes, r2 \in RandOutcomes}

(* src.startsWith('http'), 'data:', '/' : not a relative path *)
IsRelative(src) ==
  /\ ~StartsWith(src, <<"h", "t", "t", "p">>)
  /\ ~StartsWith(src, <<"d", "a", "t", "a", ":">>)
  /\ ~StartsWith(src, <<"/">>)

(* `data:${mimeType};base64,${buffer.toString('base64')}` of a file *)
DataUri == <<"d", "a", "t", "a", ":", "i", ";", "b", ",", "Q", "Q">>

(* encodeURIComponent over the characters of the sources *)
RECURSIVE encodeURIComponent(_)
encodeURIComponent(s) ==
  IF s = <<>> THEN <<>>
  ELSE (CASE Head(s) = ":" -> <<"%", "3", "A">>
          [] Head(s) = "/" -> <<"%", "2", "F">>
          [] Head(s) = ";" -> <<"%", "3", "B">>
          [] Head(s) = "," -> <<"%", "2", "C">>
          [] Head(s) = " " -> <<"%", "2", "0">>
          [] Head(s) = "#" -> <<"%", "2", "3">>
          [] Head(s) = "%" -> <<"%", "2", "5">>
          [] Head(s) = "?" -> <<"%", "3", "F">>
          [] Head(s) = "@" -> <<"%", "4", "0">>
          [] OTHER -> <<Head(s)>>)
       \o encodeURIComponent(Tail(s))

(* /^[0-9]+(\.[0-9]+)?$/ : digits, then optionally a point and digits *)
RECURSIVE DigitRun(_)
DigitRun(s) == IF s # <<>> /\ IsDigit(Head(s)) THEN 1 + DigitRun(Tail(s)) ELSE 0

IsPlainNumber(s) ==
  LET n == DigitRun(s)
      rest == SubSeq(s, n + 1, Len(s))
  IN /\ n > 0
     /\ \/ rest = <<>>
        \/ /\ Head(rest) = "."
           /\ DigitRun(Tail(rest)) > 0
           /\ DigitRun(Tail(rest)) = Len(rest) - 1

EndsWithPx(s) == Len(s) >= 2 /\ SubSeq(s, Len(s) - 1, Len(s)) = <<"p", "x">>

(* _normaliseDim: null for an empty value; a plain number, with or without
   px, gets the px suffix; anything else is kept, trimmed *)
normaliseDim(val) ==
  LET trimmed == TrimText(val)
      number == IF EndsWithPx(trimmed) THEN SubSeq(trimmed, 1, Len(trimmed) - 2) ELSE trimmed
  IN IF val = <<>> THEN <<>>
     ELSE IF IsPlainNumber(number) THEN number \o <<"p", "x">>
     ELSE trimmed

(* index.js: /^[0-9]+(\.\d+)?$/.test(imgWidth) ? `${imgWidth}px` : imgWidth *)
ImportDim(val) == IF IsPlainNumber(val) THEN val \o <<"p", "x">> ELSE val

(* parseFloat: leading white space, digits, optionally a point and digits;
   the value is num / den; NaN when there is no digit *)
RECURSIVE Pow10(_)
Pow10(n) == IF n = 0 THEN 1 ELSE 10 * Pow10(n - 1)

parseFloat(s) ==
  LET t == SkipSpaces(s)
      n == DigitRun(t)
      rest == SubSeq(t, n + 1, Len(t))
      f == IF rest # <<>> /\ Head(rest) = "." THEN DigitRun(Tail(rest)) ELSE 0
  IN IF n = 0 /\ f = 0 THEN [nan |-> TRUE, num |-> 0, den |-> 1]
     ELSE [nan |-> FALSE,
           num |-> ParseDigits(SubSeq(t, 1, n), 0) * Pow10(f)
                     + (IF f > 0 THEN ParseDigits(SubSeq(rest, 2, f + 1), 0) ELSE 0),
           den |-> Pow10(f)]

(* the digits of n, padded with zeros on the left to k characters *)
RECURSIVE PadLeft(_, _)
PadLeft(s, k) == IF Len(s) >= k THEN s ELSE PadLeft(<<"0">> \o s, k)

(* (num / den).toFixed(4): the nearest multiple of 0.0001, the larger of
   two that are equally near *)
toFixed4(num, den) ==
  LET n == (2 * num * 10000 + den) \div (2 * den)
  IN NatToString(n \div 10000) \o <<".">> \o PadLeft(NatToString(n % 10000), 4)

(* the CSS fallback: a missing dimension is taken from the rule of the
   image's class *)
EffectiveWidth(img) ==
  IF (img.width = <<>> \/ img.height = <<>>) /\ img.width = <<>> THEN img.css.w ELSE img.width

EffectiveHeight(img) ==
  IF (img.width = <<>> \/ img.height = <<>>) /\ img.height = <<>> THEN img.css.h ELSE img.height

(* the class tokens of the placeholder, in order; a token is its prefix
   followed by the characters of its value *)
ImageClasses(v, img, src, imageId) ==
  LET w == IF v = "import" THEN img.width ELSE EffectiveWidth(img)
      h == IF v = "import" THEN img.height ELSE EffectiveHeight(img)
      wPx == IF v = "import" THEN ImportDim(w) ELSE normaliseDim(w)
      hPx == IF v = "import" THEN ImportDim(h) ELSE normaliseDim(h)
      numW == parseFloat(IF v = "import" THEN w ELSE wPx)
      numH == parseFloat(IF v = "import" THEN h ELSE hPx)
  IN <<<<"inline-image">>, <<"character">>, <<"image-placeholder">>,
       <<"image:">> \o encodeURIComponent(src)>>
     \o (IF wPx # <<>> THEN <<<<"image-width:">> \o wPx>> ELSE <<>>)
     \o (IF hPx # <<>> THEN <<<<"image-height:">> \o hPx>> ELSE <<>>)
     \o (IF ~numW.nan /\ numW.num > 0 /\ ~numH.nan /\ numH.num > 0
           THEN <<<<"imageCssAspectRatio:">>
                    \o toFixed4(numW.num * numH.den, numW.den * numH.num)>>
           ELSE <<>>)
     \o <<<<"image-id-">> \o imageId>>

(* the nodes of the document: an element or a text node *)
ImgNode == [tag |-> "img", classes |-> <<>>, dataImageId |-> <<>>, text |-> <<>>]

TextNode(t) == [tag |-> "#text", classes |-> <<>>, dataImageId |-> <<>>, text |-> t]

PlaceholderSpan(classes, imageId) ==
  [tag |-> "span", classes |-> classes, dataImageId |-> imageId, text |-> <<ZWSP>>]

ImgIdle ==
  /\ imgVariant = "off" /\ images = <<>> /\ imgIdx = 0 /\ imgOut = <<>>
  /\ imgModified = FALSE

(* what the file system answers for a relative src: the file is read, it
   does not exist, reading throws; "none": no file system (browser) *)
FsOutcomes(v) ==
  IF v = "import" THEN {"read", "missing", "error"} ELSE {"read", "missing", "error", "none"}

(* one iteration that leaves the img where it is: no src (return /
   continue), or, in index.js, a relative src whose file is not found or
   not read (continue) *)
ImageSkipped ==
  /\ imgVariant # "off" /\ imgIdx < Len(images)
  /\ LET img == images[imgIdx + 1]
     IN \/ img.src = <<>>
        \/ imgVariant = "import" /\ IsRelative(img.src)
  /\ imgIdx' = imgIdx + 1
  /\ UNCHANGED <<imgVariant, images, imgOut, imgModified>>
  /\ UNCHANGED notImgVars

(* one iteration that replaces the img by ZWSP, span, ZWSP *)
ImageReplaced ==
  /\ imgVariant # "off" /\ imgIdx < Len(images)
  /\ LET img == images[imgIdx + 1]
     IN /\ img.src # <<>>
        /\ \E fsOutcome \in FsOutcomes(imgVariant), imageId \in ImageIds(imgVariant) :
             LET src == IF IsRelative(img.src) /\ fsOutcome = "read" THEN DataUri ELSE img.src
             IN /\ imgVariant = "import" /\ IsRelative(img.src) => fsOutcome = "read"
                /\ imgOut' = [imgOut EXCEPT ![imgIdx + 1] =
                     <<TextNode(<<ZWSP>>),
                       PlaceholderSpan(ImageClasses(imgVariant, img, src, imageId), imageId),
                       TextNode(<<ZWSP>>)>>]
  /\ imgModified' = TRUE
  /\ imgIdx' = imgIdx + 1
  /\ UNCHANGED <<imgVariant, images>>
  /\ UNCHANGED notImgVars

-----------------------------------------------------------------------------
(* The document as a tree.  A node is an element or a text node; of an
   element the model keeps the attributes the stages read: align (the align
   attribute, else the text-align of the style), start, src, href, color
   (the color attribute, else style.color), fontSize, valign
   (style.verticalAlign), marginLeft (in steps of 1.5em), the class list
   and the child nodes.  A class is its prefix followed by the characters
   of its value. *)

El(tag, kids) ==
  [tag |-> tag, align |-> <<>>, start |-> <<>>, src |-> <<>>, href |-> <<>>,
   color |-> <<>>, fontSize |-> <<>>, valign |-> <<>>, marginLeft |-> 0,
   cls |-> <<>>, text |-> <<>>, kids |-> kids]

Txt(t) == [El("#text", <<>>) EXCEPT !.text = t]

Br == El("br", <<>>)

IsText(n) == n.tag = "#text"

(* an img element; "img-copy" is an img element made by innerHTML or
   cloneNode after index.js took its list of images (line 115) *)
IsImg(n) == n.tag \in {"img", "img-copy"}

IsHeading(n) == n.tag \in {"h1", "h2", "h3", "h4", "h5", "h6"}

(* the nodes of a forest in document order *)
RECURSIVE AllNodes(_)
AllNodes(nodes) ==
  IF nodes = <<>> THEN <<>>
  ELSE <<Head(nodes)>> \o AllNodes(Head(nodes).kids) \o AllNodes(Tail(nodes))

(* the same, without the tables and what is inside them *)
RECURSIVE NodesOutsideTables(_)
NodesOutsideTables(nodes) ==
  IF nodes = <<>> THEN <<>>
  ELSE (IF Head(nodes).tag = "table" THEN <<>>
        ELSE <<Head(nodes)>> \o NodesOutsideTables(Head(nodes).kids))
       \o NodesOutsideTables(Tail(nodes))

(* node.textContent *)
RECURSIVE TextContentOf(_)
TextContentOf(nodes) ==
  IF nodes = <<>> THEN <<>>
  ELSE (IF IsText(Head(nodes)) THEN Head(nodes).text ELSE TextContentOf(Head(nodes).kids))
       \o TextContentOf(Tail(nodes))

(* el.innerHTML read and parsed again, or el.cloneNode(true): the same
   tree of new nodes *)
RECURSIVE Copy(_)
Copy(nodes) ==
  [i \in 1..Len(nodes) |->
     [nodes[i] EXCEPT !.tag = IF @ = "img" THEN "img-copy" ELSE @,
                      !.kids = Copy(@)]]

(* adjacent text nodes are one text node after parsing; an empty text is
   no node *)
RECURSIVE MergeText(_)
MergeText(nodes) ==
  IF nodes = <<>> THEN <<>>
  ELSE IF IsText(Head(nodes)) /\ Head(nodes).text = <<>> THEN MergeText(Tail(nodes))
  ELSE IF Len(nodes) >= 2 /\ IsText(nodes[1]) /\ IsText(nodes[2])
    THEN MergeText(<<Txt(nodes[1].text \o nodes[2].text)>> \o SubSeq(nodes, 3, Len(nodes)))
  ELSE <<Head(nodes)>> \o MergeText(Tail(nodes))

(* ---- Headings ---- *)

(* a br before and a br after every heading *)
RECURSIVE InsertHeadingBreaks(_)
InsertHeadingBreaks(nodes) ==
  IF nodes = <<>> THEN <<>>
  ELSE LET n == [Head(nodes) EXCEPT !.kids = InsertHeadingBreaks(@)]
       IN (IF IsHeading(n) THEN <<Br, n, Br>> ELSE <<n>>)
          \o InsertHeadingBreaks(Tail(nodes))

HasHeading(nodes) == \E i \in 1..Len(AllNodes(nodes)) : IsHeading(AllNodes(nodes)[i])

(* ---- Alignment ---- *)

WrapperTags == {"center", "left", "right", "justify"}

UpperChars ==
  <<"A", "B", "C", "D", "E", "F", "G", "H", "I", "J", "K", "L", "M",
    "N", "O", "P", "Q", "R", "S", "T", "U", "V", "W", "X", "Y", "Z">>

LowerChars ==
  <<"a", "b", "c", "d", "e", "f", "g", "h", "i", "j", "k", "l", "m",
    "n", "o", "p", "q", "r", "s", "t", "u", "v", "w", "x", "y", "z">>

toLowerCase(s) ==
  [i \in 1..Len(s) |->
     IF s[i] \in Range(UpperChars)
       THEN LowerChars[CHOOSE k \in 1..26 : UpperChars[k] = s[i]]
       ELSE s[i]]

(* the wrapper tag of an aligned block, <<>> when it gets none: the value
   lower-cased, looked up in ALIGN_MAP, left skipped *)
ALIGN_MAP ==
  {<<"c", "e", "n", "t", "e", "r">>, <<"r", "i", "g", "h", "t">>,
   <<"j", "u", "s", "t", "i", "f", "y">>, <<"l", "e", "f", "t">>}

WrapperOf(blk) ==
  LET alignVal == toLowerCase(blk.align)
  IN IF alignVal \notin ALIGN_MAP \/ alignVal = <<"l", "e", "f", "t">> THEN <<>>
     ELSE alignVal

TagOf(alignVal) ==
  CASE alignVal = <<"c", "e", "n", "t", "e", "r">> -> "center"
    [] alignVal = <<"r", "i", "g", "h", "t">> -> "right"
    [] OTHER -> "justify"

(* the block is in alignedBlocks and is wrapped: it has an alignment, is
   no wrapper itself, is not inside a table, and its value maps *)
Wraps(blk, inTable) ==
  /\ ~IsText(blk) /\ blk.align # <<>>
  /\ blk.tag \notin WrapperTags
  /\ ~inTable
  /\ WrapperOf(blk) # <<>>

(* alignedBlocks.forEach over the list taken before the loop, outer blocks
   first.  A heading is put inside its wrapper and stays the same node, so
   the blocks inside it are still in the document when their turn comes; of
   any other block the wrapper gets the innerHTML: new nodes, which the
   list does not hold, while the listed blocks inside it are wrapped in
   the subtree that has left the document. *)
RECURSIVE AlignNodes(_, _)
AlignNodes(nodes, inTable) ==
  IF nodes = <<>> THEN <<>>
  ELSE LET blk == Head(nodes)
           within == inTable \/ blk.tag = "table"
       IN (IF Wraps(blk, within)
             THEN (IF IsHeading(blk)
                     THEN <<El(TagOf(WrapperOf(blk)),
                               <<[blk EXCEPT !.align = <<>>,
                                             !.kids = AlignNodes(@, within)]>>),
                            Br>>
                     ELSE <<El(TagOf(WrapperOf(blk)), Copy(blk.kids)), Br>>)
             ELSE <<[blk EXCEPT !.kids = AlignNodes(@, within)]>>)
          \o AlignNodes(Tail(nodes), inTable)

HasAlignedBlock(nodes) ==
  \E i \in 1..Len(NodesOutsideTables(nodes)) : Wraps(NodesOutsideTables(nodes)[i], FALSE)

(* ---- Ordered lists, on the tree ---- *)

PrefixSpan(counter) == El("span", <<Txt(IntToString(counter) \o <<".", " ">>)>>)

StartOf(olNode) ==
  LET startAttr == parseInt(AttrOrOne(olNode.start))
  IN IF startAttr.nan THEN 1 ELSE startAttr.val

(* processOrderedList on a tree: a div for every li child; the li is
   cloned, the lists inside the clone are replaced by their fragments, a
   single wrapping p is unwrapped, the prefix is put in front *)
RECURSIVE ReplaceLists(_, _)
RECURSIVE ItemDivs(_, _, _)
ItemDivs(children, counter, depth) ==
  IF children = <<>> THEN <<>>
  ELSE LET child == Head(children)
           liClone == ReplaceLists(Copy(child.kids), depth + 1)
           moved == IF Len(liClone) = 1 /\ liClone[1].tag = "p" THEN liClone[1].kids
                    ELSE liClone
       IN IF child.tag = "li"
            THEN <<[El("div", <<PrefixSpan(counter)>> \o moved) EXCEPT !.marginLeft = depth]>>
                   \o ItemDivs(Tail(children), NextCounter(counter), depth)
            ELSE ItemDivs(Tail(children), counter, depth)

ReplaceLists(nodes, depth) ==
  IF nodes = <<>> THEN <<>>
  ELSE (IF Head(nodes).tag = "ol"
          THEN ItemDivs(Head(nodes).kids, StartOf(Head(nodes)), depth)
          ELSE <<[Head(nodes) EXCEPT !.kids = ReplaceLists(@, depth)]>>)
       \o ReplaceLists(Tail(nodes), depth)

HasTag(nodes, tag) == \E i \in 1..Len(AllNodes(nodes)) : AllNodes(nodes)[i].tag = tag

(* ---- Images, on the tree ---- *)

(* fs.existsSync(imagePath) and the read succeed: the file system of the
   run holds a.p and no other file *)
FileRead(src) == src = <<"a", ".", "p">>

ImageSource(v, src) ==
  IF v = "import" /\ IsRelative(src) /\ FileRead(src) THEN DataUri ELSE src

(* the img is one the loop replaces: it has a src; in index.js it is also
   in the list taken at line 115 and, when relative, its file is read *)
ReplacesImage(v, img) ==
  /\ IsImg(img) /\ img.src # <<>>
  /\ v = "import" => img.tag = "img" /\ (IsRelative(img.src) => FileRead(img.src))

ImagePlaceholder(v, img) ==
  [El("span", <<Txt(<<ZWSP>>)>>) EXCEPT
     !.cls = <<<<"image-placeholder">>,
               <<"image:">> \o encodeURIComponent(ImageSource(v, img.src))>>]

RECURSIVE SubstituteImages(_, _)
SubstituteImages(v, nodes) ==
  IF nodes = <<>> THEN <<>>
  ELSE LET n == Head(nodes)
       IN (IF ReplacesImage(v, n)
             THEN <<Txt(<<ZWSP>>), ImagePlaceholder(v, n), Txt(<<ZWSP>>)>>
             ELSE <<[n EXCEPT !.kids = SubstituteImages(v, @)]>>)
          \o SubstituteImages(v, Tail(nodes))

(* ---- Hyperlinks, on the tree ---- *)

SchemePrefixes ==
  {<<"h", "t", "t", "p", ":", "/", "/">>, <<"h", "t", "t", "p", "s", ":", "/", "/">>,
   <<"m", "a", "i", "l", "t", "o", ":">>, <<"f", "t", "p", ":">>,
   <<"f", "i", "l", "e", ":">>, <<"#">>, <<"/">>}

(* the trimmed href, with http:// in front when it has none of the
   recognised beginnings, in either case of letters (the i flag) *)
NormalisedHref(a) ==
  LET href == TrimText(a.href)
  IN IF \E p \in SchemePrefixes : StartsWith(toLowerCase(href), p) THEN href
     ELSE <<"h", "t", "t", "p", ":", "/", "/">> \o href

(* the anchor is in anchors (it has an href attribute) and the trimmed
   href is not empty *)
ReplacesAnchor(a) == a.tag = "a" /\ TrimText(a.href) # <<>>

HyperlinkSpan(a) ==
  LET text == TextContentOf(a.kids)
      shown == IF text # <<>> THEN text ELSE NormalisedHref(a)
  IN [El("span", <<Txt(shown)>>) EXCEPT
        !.cls = <<<<"hyperlink">>,
                  <<"hyperlink-">> \o encodeURIComponent(NormalisedHref(a))>>]

RECURSIVE SubstituteLinks(_)
SubstituteLinks(nodes) ==
  IF nodes = <<>> THEN <<>>
  ELSE LET n == Head(nodes)
       IN (IF ReplacesAnchor(n)
             THEN <<Txt(<<ZWSP>>), HyperlinkSpan(n), Txt(<<ZWSP>>)>>
             ELSE <<[n EXCEPT !.kids = SubstituteLinks(@)]>>)
          \o SubstituteLinks(Tail(nodes))

(* ---- Font colour and size ---- *)

NoRgb == <<>>

(* the named colours of each copy *)
NamedColors(v) ==
  {[name |-> <<"b", "l", "a", "c", "k">>, rgb |-> <<0, 0, 0>>],
   [name |-> <<"r", "e", "d">>, rgb |-> <<255, 0, 0>>],
   [name |-> <<"g", "r", "e", "e", "n">>, rgb |-> <<0, 128, 0>>],
   [name |-> <<"b", "l", "u", "e">>, rgb |-> <<0, 0, 255>>],
   [name |-> <<"y", "e", "l", "l", "o", "w">>, rgb |-> <<255, 255, 0>>],
   [name |-> <<"o", "r", "a", "n", "g", "e">>, rgb |-> <<255, 165, 0>>]}
  \cup (IF v = "import"
          THEN {[name |-> <<"w", "h", "i", "t", "e">>, rgb |-> <<255, 255, 255>>],
                [name |-> <<"p", "u", "r", "p", "l", "e">>, rgb |-> <<128, 0, 128>>],
                [name |-> <<"g", "r", "a", "y">>, rgb |-> <<128, 128, 128>>],
                [name |-> <<"g", "r", "e", "y">>, rgb |-> <<128, 128, 128>>],
                [name |-> <<"l", "i", "m", "e">>, rgb |-> <<0, 255, 0>>],
                [name |-> <<"c", "y", "a", "n">>, rgb |-> <<0, 255, 255>>],
                [name |-> <<"m", "a", "g", "e", "n", "t", "a">>, rgb |-> <<255, 0, 255>>],
                [name |-> <<"m", "a", "r", "o", "o", "n">>, rgb |-> <<128, 0, 0>>],
                [name |-> <<"n", "a", "v", "y">>, rgb |-> <<0, 0, 128>>]}
          ELSE {})

HexChars == <<"0", "1", "2", "3", "4", "5", "6", "7", "8", "9", "a", "b", "c", "d", "e", "f">>

IsHex(c) == c \in Range(HexChars)

HexVal(c) == (CHOOSE i \in 1..16 : HexChars[i] = c) - 1

(* parseInt of two hexadecimal digits *)
HexPair(hi, lo) == 16 * HexVal(hi) + HexVal(lo)

(* /^#?([0-9a-f]{3}|[0-9a-f]{6})$/ : the digits, <<>> when no match *)
HexDigitsOf(s) ==
  LET h == IF s # <<>> /\ Head(s) = "#" THEN Tail(s) ELSE s
  IN IF Len(h) \in {3, 6} /\ \A i \in 1..Len(h) : IsHex(h[i]) THEN h ELSE <<>>

(* the three bytes of the digits h, three digits being doubled *)
HexRgb(h) ==
  IF Len(h) = 3
    THEN <<HexPair(h[1], h[1]), HexPair(h[2], h[2]), HexPair(h[3], h[3])>>
    ELSE <<HexPair(h[1], h[2]), HexPair(h[3], h[4]), HexPair(h[5], h[6])>>

(* \s* from position i of s: the position after it *)
RECURSIVE AfterSpaces(_, _)
AfterSpaces(s, i) ==
  IF i <= Len(s) /\ IsSpace(s[i]) THEN AfterSpaces(s, i + 1) ELSE i

(* \d* from position i of s: the position after it *)
RECURSIVE AfterDigits(_, _)
AfterDigits(s, i) ==
  IF i <= Len(s) /\ IsDigit(s[i]) THEN AfterDigits(s, i + 1) ELSE i

(* the digits s[a..b-1], white space up to c, then the character stop *)
NumberBetween(s, a, b, c, stop) ==
  IF b > a /\ c <= Len(s) /\ s[c] = stop
    THEN [pos |-> c + 1, val |-> ParseDigits(SubSeq(s, a, b - 1), 0)]
    ELSE [pos |-> 0, val |-> 0]

NumberUpTo(s, a, b, stop) == NumberBetween(s, a, b, AfterSpaces(s, b), stop)

NumberFrom(s, a, stop) == NumberUpTo(s, a, AfterDigits(s, a), stop)

(* the match of \s*(\d+)\s* followed by the character stop, from position
   i of s: the number and the position after stop; pos = 0 when no match *)
NumberThen(s, i, stop) == NumberFrom(s, AfterSpaces(s, i), stop)

RgbOfNumbers(r, g, b) == IF b.pos = 0 THEN NoRgb ELSE <<r.val, g.val, b.val>>

RgbAfterGreen(s, r, g) ==
  IF g.pos = 0 THEN NoRgb ELSE RgbOfNumbers(r, g, NumberThen(s, g.pos, ")"))

RgbAfterRed(s, r) ==
  IF r.pos = 0 THEN NoRgb ELSE RgbAfterGreen(s, r, NumberThen(s, r.pos, ","))

RgbAfterName(s, paren) ==
  IF paren <= Len(s) /\ s[paren] = "("
    THEN RgbAfterRed(s, NumberThen(s, paren + 1, ","))
    ELSE NoRgb

(* /rgb\s*\(\s*(\d+)\s*,\s*(\d+)\s*,\s*(\d+)\s*\)/ matched at position i *)
RgbAt(s, i) ==
  IF i + 2 <= Len(s) /\ SubSeq(s, i, i + 2) = <<"r", "g", "b">>
    THEN RgbAfterName(s, AfterSpaces(s, i + 3))
    ELSE NoRgb

(* the first match of the rgb pattern at position i of s or later *)
RECURSIVE RgbFrom(_, _)
RgbFrom(s, i) ==
  IF i > Len(s) THEN NoRgb
  ELSE IF RgbAt(s, i) # NoRgb THEN RgbAt(s, i)
  ELSE RgbFrom(s, i + 1)

RgbOf(s) == RgbFrom(s, 1)

(* named[s] *)
NamedRgb(v, s) ==
  LET named == {c \in NamedColors(v) : c.name = s}
  IN IF named = {} THEN NoRgb ELSE (CHOOSE c \in named : TRUE).rgb

(* the lower-cased, trimmed string: the named colours, then hex, then
   rgb() *)
RgbOfTrimmed(v, s) ==
  IF NamedRgb(v, s) # NoRgb THEN NamedRgb(v, s)
  ELSE IF HexDigitsOf(s) # <<>> THEN HexRgb(HexDigitsOf(s))
  ELSE RgbOf(s)

(* parseColorToRgb: NoRgb for null *)
parseColorToRgb(v, colorStr) ==
  IF colorStr = <<>> THEN NoRgb ELSE RgbOfTrimmed(v, TrimText(toLowerCase(colorStr)))

(* the palette in the order Object.entries gives it *)
ColorPalette ==
  <<[name |-> "black", rgb |-> <<0, 0, 0>>],
    [name |-> "red", rgb |-> <<255, 0, 0>>],
    [name |-> "green", rgb |-> <<0, 128, 0>>],
    [name |-> "blue", rgb |-> <<0, 0, 255>>],
    [name |-> "yellow", rgb |-> <<255, 255, 0>>],
    [name |-> "orange", rgb |-> <<255, 165, 0>>]>>

(* the square of the distance; Math.sqrt keeps the order and the ties of
   these integers *)
Distance2(a, b) ==
  (a[1] - b[1]) * (a[1] - b[1]) + (a[2] - b[2]) * (a[2] - b[2])
    + (a[3] - b[3]) * (a[3] - b[3])

(* if (d < bestDist), as read with <= *)
CloserOrEqual(d, bestDist) == d <= bestDist

(* if (d < bestDist) *)
Closer(d, bestDist) == d < bestDist

(* the loop over the palette from entry i on, best being the entry kept
   so far (0: none yet, bestDist is 1e9 / Infinity) *)
RECURSIVE NearestFrom(_, _, _)
NearestFrom(rgb, i, best) ==
  IF i > Len(ColorPalette) THEN best
  ELSE IF best = 0 \/ Closer(Distance2(rgb, ColorPalette[i].rgb),
                             Distance2(rgb, ColorPalette[best].rgb))
    THEN NearestFrom(rgb, i + 1, i)
    ELSE NearestFrom(rgb, i + 1, best)

(* findNearestColor: "none" for null *)
findNearestColor(rgb) ==
  IF rgb = NoRgb THEN "none" ELSE ColorPalette[NearestFrom(rgb, 1, 0)].name

ColorClass(name) == <<"color:", name>>

(* /([0-9.]+)(px|pt)?/i : the first run of digits and points of val and
   whether pt follows it; parseFloat of the run; points are scaled by
   1.333 and rounded; the result rounded.  0 for null. *)
RECURSIVE NumberRun(_)
NumberRun(s) ==
  IF s # <<>> /\ (IsDigit(Head(s)) \/ Head(s) = ".") THEN 1 + NumberRun(Tail(s)) ELSE 0

RECURSIVE FirstNumberRun(_, _)
FirstNumberRun(s, i) ==
  IF i > Len(s) THEN 0
  ELSE IF IsDigit(s[i]) \/ s[i] = "." THEN i
  ELSE FirstNumberRun(s, i + 1)

(* Math.round of num / den, not negative *)
Round(num, den) == (2 * num + den) \div (2 * den)

PxOfFloat(f, isPt) ==
  IF f.nan THEN 0
  ELSE IF isPt THEN Round(f.num * 1333, f.den * 1000)
  ELSE Round(f.num, f.den)

PxOfRun(val, i, n) ==
  PxOfFloat(parseFloat(SubSeq(val, i, i + n - 1)),
            toLowerCase(SubSeq(val, i + n, Min(i + n + 1, Len(val)))) = <<"p", "t">>)

PxAt(val, i) == IF i = 0 THEN 0 ELSE PxOfRun(val, i, NumberRun(SubSeq(val, i, Len(val))))

parsePx(val) == IF val = <<>> THEN 0 ELSE PxAt(val, FirstNumberRun(val, 1))

SizePalette(v) ==
  IF v = "import"
    THEN <<8, 9, 10, 11, 12, 13, 14, 15, 16, 17, 18, 19, 20, 22, 24, 26, 28, 30, 35, 40,
           45, 50, 60>>
    ELSE <<8, 9, 10, 11, 12, 14, 16, 18, 20, 22, 24, 26, 28, 30, 35, 40>>

Abs(x) == IF x < 0 THEN -x ELSE x

RECURSIVE NearestSizeFrom(_, _, _, _)
NearestSizeFrom(palette, px, i, best) ==
  IF i > Len(palette) THEN best
  ELSE IF Abs(px - palette[i]) < Abs(px - best)
    THEN NearestSizeFrom(palette, px, i + 1, palette[i])
    ELSE NearestSizeFrom(palette, px, i + 1, best)

NearestSize(v, px) == NearestSizeFrom(SizePalette(v), px, 1, SizePalette(v)[1])

SizeClass(size) == <<"font-size:">> \o IntToString(size)

(* the element is in styledNodes *)
IsStyled(el) == ~IsText(el) /\ (el.color # <<>> \/ el.fontSize # <<>>)

Includes(classes, c) == \E i \in 1..Len(classes) : classes[i] = c

(* transform_common.js: the classes after the colour of a styled node *)
WithColorCommon(classes, colorAttr, mapped) ==
  IF colorAttr # <<>> /\ mapped \notin {"none", "black"}
       /\ ~Includes(classes, ColorClass(mapped))
    THEN Append(classes, ColorClass(mapped))
    ELSE classes

(* transform_common.js: the classes after the size of a styled node *)
WithSizeCommon(classes, px, best) ==
  IF px # 0 /\ best # 14 /\ ~Includes(classes, SizeClass(best))
    THEN Append(classes, SizeClass(best))
    ELSE classes

WithPxCommon(classes, px) == WithSizeCommon(classes, px, NearestSize("common", px))

(* sup and sub keep their size *)
SizeStyleCommon(el) == IF el.tag \in {"sup", "sub"} THEN <<>> ELSE el.fontSize

ClassesCommon(el) ==
  WithPxCommon(WithColorCommon(el.cls, el.color,
                               findNearestColor(parseColorToRgb("common", el.color))),
               parsePx(SizeStyleCommon(el)))

(* if (changed) *)
WithClassesCommon(el, classes) ==
  IF classes # el.cls
    THEN [el EXCEPT !.cls = classes, !.color = <<>>, !.fontSize = <<>>]
    ELSE el

StyledCommon(el) == WithClassesCommon(el, ClassesCommon(el))

(* index.js: every mapped colour and size is written, after the classes
   of the same kind are dropped *)
WithColorImport(classes, mapped) ==
  IF mapped # "none"
    THEN Append(SelectSeq(classes, LAMBDA c : Head(c) # "color:"), ColorClass(mapped))
    ELSE classes

WithSizeImport(classes, px) ==
  IF px # 0
    THEN Append(SelectSeq(classes, LAMBDA c : Head(c) # "font-size:"),
                SizeClass(NearestSize("import", px)))
    ELSE classes

(* if (modified) *)
WithMappedImport(el, mapped, px) ==
  IF mapped # "none" \/ px # 0
    THEN [el EXCEPT !.cls = WithSizeImport(WithColorImport(el.cls, mapped), px),
                    !.color = <<>>, !.fontSize = <<>>]
    ELSE el

StyledImport(el) ==
  WithMappedImport(el, findNearestColor(parseColorToRgb("import", el.color)),
                   parsePx(el.fontSize))

StyledNode(v, el) ==
  IF ~IsStyled(el) THEN el
  ELSE IF v = "import" THEN StyledImport(el)
  ELSE StyledCommon(el)

RECURSIVE QuantizeStyles(_, _)
QuantizeStyles(v, nodes) ==
  [i \in 1..Len(nodes) |-> StyledNode(v, [nodes[i] EXCEPT !.kids = QuantizeStyles(v, @)])]

(* the modified flag after the stage: transform_common.js sets it for a
   node it changed, index.js when there is any styled node *)
StyledSetsModified(v, el) == IsStyled(el) /\ (v = "common" => StyledCommon(el) # el)

StylesSetModified(v, nodes) ==
  \E el \in Range(AllNodes(nodes)) : StyledSetsModified(v, el)

(* ---- Tables, on the tree ---- *)

TrimFirstText(nodes) ==
  IF nodes # <<>> /\ IsText(nodes[1])
    THEN <<Txt(TrimLeft(nodes[1].text, {" ", LF}))>> \o Tail(nodes)
    ELSE nodes

TrimLastText(nodes) ==
  IF nodes # <<>> /\ IsText(nodes[Len(nodes)])
    THEN SubSeq(nodes, 1, Len(nodes) - 1)
           \o <<Txt(TrimRight(nodes[Len(nodes)].text, {" ", LF}))>>
    ELSE nodes

(* the trim() of a string of HTML, on its nodes: white space at the
   beginning of a leading text node and at the end of a trailing one *)
TrimNodes(nodes) == MergeText(TrimLastText(MergeText(TrimFirstText(MergeText(nodes)))))

(* s.replace(/\r?\n/g, ' ') on every text of the nodes *)
RECURSIVE NewlinesToSpaces(_)
NewlinesToSpaces(nodes) ==
  [i \in 1..Len(nodes) |->
     [nodes[i] EXCEPT !.text = ReplaceNewlines(@), !.kids = NewlinesToSpaces(@)]]

(* the first heading of the cell becomes a span with its classes and bold *)
BoldSpan(heading) ==
  [El("span", TrimNodes(heading.kids)) EXCEPT
     !.cls = IF Includes(heading.cls, <<"bold">>) THEN heading.cls
             ELSE Append(heading.cls, <<"bold">>)]

RECURSIVE ReplaceFirstHeading(_)
ReplaceFirstHeading(nodes) ==
  IF nodes = <<>> THEN <<>>
  ELSE IF IsHeading(Head(nodes)) THEN <<BoldSpan(Head(nodes))>> \o Tail(nodes)
  ELSE IF HasHeading(Head(nodes).kids)
    THEN <<[Head(nodes) EXCEPT !.kids = ReplaceFirstHeading(@)]>> \o Tail(nodes)
  ELSE <<Head(nodes)>> \o ReplaceFirstHeading(Tail(nodes))

(* a part that is not empty *)
PartOf(nodes) == IF nodes = <<>> THEN <<>> ELSE <<nodes>>

TextPart(t) == IF t = <<>> THEN <<>> ELSE <<<<Txt(t)>>>>

(* flatten / flattenParagraphs: the part of one child node *)
CellPart(n) ==
  IF IsText(n) THEN TextPart(TrimText(n.text))
  ELSE IF n.tag = "p" THEN PartOf(TrimNodes(n.kids))
  ELSE <<<<n>>>>

RECURSIVE CellParts(_)
CellParts(nodes) ==
  IF nodes = <<>> THEN <<>> ELSE CellPart(Head(nodes)) \o CellParts(Tail(nodes))

(* parts.join(' ').trim(), parsed *)
flattenNodes(nodes) == TrimNodes(Join(CellParts(nodes), <<Txt(<<" ">>)>>))

IsBlankText(n) == IsText(n) /\ \A i \in 1..Len(n.text) : n.text[i] \in {" ", LF}

(* the trailing run of br elements, each with the white space after it, is
   cut off: where the run starts, 0 when there is none *)
RECURSIVE TrailingBrStart(_, _, _)
TrailingBrStart(nodes, i, found) ==
  IF i < 1 THEN found
  ELSE IF nodes[i].tag = "br" THEN TrailingBrStart(nodes, i - 1, i)
  ELSE IF IsBlankText(nodes[i]) THEN TrailingBrStart(nodes, i - 1, found)
  ELSE found

CutFrom(nodes, k) == IF k = 0 THEN nodes ELSE SubSeq(nodes, 1, k - 1)

StripTrailingBrNodes(nodes) == CutFrom(nodes, TrailingBrStart(nodes, Len(nodes), 0))

(* every br, at any depth, becomes a space *)
RECURSIVE BrToSpaces(_)
BrToSpaces(nodes) ==
  MergeText([i \in 1..Len(nodes) |->
               IF nodes[i].tag = "br" THEN Txt(<<" ">>)
               ELSE [nodes[i] EXCEPT !.kids = BrToSpaces(@)]])

visiblyEmptyNodes(nodes) ==
  TrimText(SelectSeq(TextContentOf(nodes), LAMBDA c : c # NBSP)) = <<>>

BlankCellNodes(v) ==
  IF v = "import" THEN <<Txt(<<" ">>), El("span", <<Txt(<<NBSP>>)>>)>>
  ELSE <<El("span", <<Txt(<<NBSP>>)>>)>>

BlankIfEmpty(v, nodes) == IF visiblyEmptyNodes(nodes) THEN BlankCellNodes(v) ELSE nodes

WithoutBreaks(v, nodes) ==
  IF nodes = <<>> THEN nodes
  ELSE IF v = "import" THEN BrToSpaces(TrimNodes(StripTrailingBrNodes(nodes)))
  ELSE TrimNodes(BrToSpaces(StripTrailingBrNodes(nodes)))

WithoutLoneBr(nodes) == IF nodes = <<Br>> THEN <<>> ELSE nodes

(* the html of one consumed source cell, parsed *)
NormaliseCellNodes(v, cell) ==
  BlankIfEmpty(v,
    WithoutBreaks(v,
      WithoutLoneBr(
        flattenNodes(ReplaceFirstHeading(TrimNodes(NewlinesToSpaces(Copy(cell.kids))))))))

ChildrenWithTag(node, tags) == SelectSeq(node.kids, LAMBDA k : k.tag \in tags)

(* the tr of a table and the td, th of a tr; the tables of the tree model
   hold them as children and their cells have no colspan or rowspan *)
RowsOf(tableNode) == ChildrenWithTag(tableNode, {"tr"})

CellsOf(rowNode) == ChildrenWithTag(rowNode, {"td", "th"})

RECURSIVE WidestRow(_)
WidestRow(trs) ==
  IF trs = <<>> THEN 0 ELSE Max(Len(CellsOf(Head(trs))), WidestRow(Tail(trs)))

(* the cells of one line: a source cell for every column that has one, the
   blank placeholder for the rest *)
CellOrBlank(v, cells, col) ==
  IF col <= Len(cells) THEN NormaliseCellNodes(v, cells[col]) ELSE BlankCellNodes(v)

LineCells(v, rowNode, n) == [col \in 1..n |-> CellOrBlank(v, CellsOf(rowNode), col)]

TokenOfLine(base, idx, row, n) ==
  TBLJSON_PREFIX \o enc(JSONStringify(Meta(base, idx, row, n)))

CellSpan(token, i, nodes) ==
  [El("span", nodes) EXCEPT !.cls = <<token, TBLCELL_PREFIX \o IntToString(i - 1)>>]

(* transform_common.js: a span per cell with the delimiter between them
   and the final empty span; index.js: the cells joined by the delimiter *)
LineDiv(v, cells, token) ==
  IF v = "import"
    THEN [El("div", MergeText(Join(cells, <<Txt(<<DELIMITER>>)>>))) EXCEPT !.cls = <<token>>]
    ELSE El("div",
            Join([i \in 1..Len(cells) |-> <<CellSpan(token, i, cells[i])>>],
                 <<Txt(<<DELIMITER>>)>>)
              \o <<[El("span", <<>>) EXCEPT !.cls = <<token>>]>>)

LinesOfRows(v, trs, n, base, idx) ==
  IF n = 0 THEN <<>>
  ELSE [r \in 1..Len(trs) |->
          LineDiv(v, LineCells(v, trs[r], n), TokenOfLine(base, idx, r - 1, n))]

RowsToLines(v, trs, base, idx) == LinesOfRows(v, trs, WidestRow(trs), base, idx)

LinesOf(v, tableNode, base, idx) == RowsToLines(v, RowsOf(tableNode), base, idx)

(* if (newLines.length) replaceChild *)
TableOrLines(tableNode, lines) == IF lines = <<>> THEN <<tableNode>> ELSE lines

(* the tables of the nodes, at any depth *)
TablesIn(nodes) == Len(SelectSeq(AllNodes(nodes), LAMBDA k : k.tag = "table"))

(* tables.forEach: a table that gives lines is replaced by them; idx is
   the number of tables before the nodes in the document *)
RECURSIVE FlattenTables(_, _, _, _)
FlattenTables(v, nodes, base, idx) ==
  IF nodes = <<>> THEN <<>>
  ELSE (IF Head(nodes).tag = "table"
          THEN TableOrLines(Head(nodes), LinesOf(v, Head(nodes), base, idx))
          ELSE <<[Head(nodes) EXCEPT !.kids = FlattenTables(v, @, base, idx)]>>)
       \o FlattenTables(v, Tail(nodes), base, idx + TablesIn(<<Head(nodes)>>))

HasLines(nodes) ==
  \E el \in Range(AllNodes(nodes)) : el.tag = "table" /\ WidestRow(RowsOf(el)) > 0

(* ---- Superscript / subscript, on the tree ---- *)

VerticalOf(vAlign) ==
  IF vAlign = <<"s", "u", "p", "e", "r">> THEN "sup"
  ELSE IF vAlign = <<"s", "u", "b">> THEN "sub"
  ELSE "none"

VerticalTag(el) == IF IsText(el) THEN "none" ELSE VerticalOf(toLowerCase(el.valign))

VerticalNode(el, tag) ==
  [El(tag, Copy(el.kids)) EXCEPT
     !.cls = SelectSeq(el.cls, LAMBDA c : c \notin {<<"sup">>, <<"sub">>})]

(* vaElements.forEach: the element is replaced by a sup or sub with its
   classes, but for sup and sub, and its innerHTML *)
RECURSIVE NormaliseVertical(_)
NormaliseVertical(nodes) ==
  [i \in 1..Len(nodes) |->
     IF VerticalTag(nodes[i]) # "none"
       THEN VerticalNode(nodes[i], VerticalTag(nodes[i]))
       ELSE [nodes[i] EXCEPT !.kids = NormaliseVertical(@)]]

HasVertical(nodes) == \E el \in Range(AllNodes(nodes)) : VerticalTag(el) # "none"

(* ---- One run of the pipeline ---- *)

PipeIdle ==
  /\ pipeVariant = "off" /\ pipeInput = <<>> /\ doc = <<>> /\ stage = "off"
  /\ pipeModified = FALSE /\ changedBy = {} /\ ran = {}
  /\ destFile = [state |-> "absent", html |-> <<>>]
  /\ writes = 0 /\ result = "none" /\ threwAt = "none"

(* the stages of exports.import that run inside its try block, after the
   conversion has been started *)
ImportStages ==
  {"rename", "headings", "alignment", "lists", "images", "hyperlinks", "styles", "tables"}

(* history: the stages that have changed the tree, after the stage name
   has made newDoc of it *)
ChangedAfter(name, newDoc) == IF newDoc # doc THEN changedBy \cup {name} ELSE changedBy

(* exports.import: soffice is not configured, the conversion fails, or no
   converted file is found: the hook returns false (by return or by catch) *)
ConvertFails ==
  /\ pipeVariant = "import" /\ stage = "convert"
  /\ result' = "false"
  /\ stage' = "returned"
  /\ UNCHANGED <<pipeVariant, pipeInput, doc, pipeModified, changedBy, ran, destFile,
                 writes, threwAt>>
  /\ UNCHANGED notPipeVars

(* exports.import: the conversion has written its HTML file *)
Convert ==
  /\ pipeVariant = "import" /\ stage = "convert"
  /\ stage' = "rename"
  /\ UNCHANGED <<pipeVariant, pipeInput, doc, pipeModified, changedBy, ran, destFile,
                 writes, result, threwAt>>
  /\ UNCHANGED notPipeVars

(* exports.import: the converted file is renamed to destFile, read and
   parsed *)
RenameAndParse ==
  /\ pipeVariant = "import" /\ stage = "rename"
  /\ destFile' = [state |-> "converted", html |-> pipeInput]
  /\ doc' = pipeInput
  /\ stage' = "headings"
  /\ UNCHANGED <<pipeVariant, pipeInput, pipeModified, changedBy, ran, writes, result,
                 threwAt>>
  /\ UNCHANGED notPipeVars

(* a handler that would write what the stages have made so far *)
CatchWritesModified(flag) == flag

(* the catch block logs and returns false: it writes nothing *)
CatchWrites(flag) == FALSE

(* exports.import: an exception inside the try block, before the write:
   the catch returns false *)
StageThrows ==
  /\ pipeVariant = "import" /\ stage \in ImportStages
  /\ destFile' = IF CatchWrites(pipeModified)
                   THEN [state |-> "transformed", html |-> doc] ELSE destFile
  /\ threwAt' = stage
  /\ result' = "false"
  /\ stage' = "returned"
  /\ UNCHANGED <<pipeVariant, pipeInput, doc, pipeModified, changedBy, ran, writes>>
  /\ UNCHANGED notPipeVars

(* a br before and after every heading *)
Headings ==
  /\ pipeVariant # "off" /\ stage = "headings"
  /\ doc' = InsertHeadingBreaks(doc)
  /\ pipeModified' = (pipeModified \/ HasHeading(doc))
  /\ changedBy' = ChangedAfter("headings", doc')
  /\ ran' = ran \cup {"headings"}
  /\ stage' = "alignment"
  /\ UNCHANGED <<pipeVariant, pipeInput, destFile, writes, result, threwAt>>
  /\ UNCHANGED notPipeVars

(* the aligned blocks get their wrappers *)
Alignment ==
  /\ pipeVariant # "off" /\ stage = "alignment"
  /\ doc' = AlignNodes(doc, FALSE)
  /\ pipeModified' = (pipeModified \/ HasAlignedBlock(doc))
  /\ changedBy' = ChangedAfter("alignment", doc')
  /\ ran' = ran \cup {"alignment"}
  /\ stage' = "lists"
  /\ UNCHANGED <<pipeVariant, pipeInput, destFile, writes, result, threwAt>>
  /\ UNCHANGED notPipeVars

(* the ordered lists become runs of div elements *)
Lists ==
  /\ pipeVariant # "off" /\ stage = "lists"
  /\ doc' = ReplaceLists(doc, 0)
  /\ pipeModified' = (pipeModified \/ HasTag(doc, "ol"))
  /\ changedBy' = ChangedAfter("lists", doc')
  /\ ran' = ran \cup {"lists"}
  /\ stage' = "images"
  /\ UNCHANGED <<pipeVariant, pipeInput, destFile, writes, result, threwAt>>
  /\ UNCHANGED notPipeVars

(* the images the stage goes through: index.js takes the list from the
   parsed file, before any stage *)
ImageList == AllNodes(IF pipeVariant = "import" THEN pipeInput ELSE doc)

ImagesSetModified == \E img \in Range(ImageList) : ReplacesImage(pipeVariant, img)

(* the images become placeholders *)
Images ==
  /\ pipeVariant # "off" /\ stage = "images"
  /\ doc' = SubstituteImages(pipeVariant, doc)
  /\ pipeModified' = (pipeModified \/ ImagesSetModified)
  /\ changedBy' = ChangedAfter("images", doc')
  /\ ran' = ran \cup {"images"}
  /\ stage' = "hyperlinks"
  /\ UNCHANGED <<pipeVariant, pipeInput, destFile, writes, result, threwAt>>
  /\ UNCHANGED notPipeVars

AnchorsSetModified == \E a \in Range(AllNodes(doc)) : ReplacesAnchor(a)

(* the anchors become hyperlink spans *)
Hyperlinks ==
  /\ pipeVariant # "off" /\ stage = "hyperlinks"
  /\ doc' = SubstituteLinks(doc)
  /\ pipeModified' = (pipeModified \/ AnchorsSetModified)
  /\ changedBy' = ChangedAfter("hyperlinks", doc')
  /\ ran' = ran \cup {"hyperlinks"}
  /\ stage' = "styles"
  /\ UNCHANGED <<pipeVariant, pipeInput, destFile, writes, result, threwAt>>
  /\ UNCHANGED notPipeVars

(* inline colours and sizes become classes *)
Styles ==
  /\ pipeVariant # "off" /\ stage = "styles"
  /\ doc' = QuantizeStyles(pipeVariant, doc)
  /\ pipeModified' = (pipeModified \/ StylesSetModified(pipeVariant, doc))
  /\ changedBy' = ChangedAfter("styles", doc')
  /\ ran' = ran \cup {"styles"}
  /\ stage' = "tables"
  /\ UNCHANGED <<pipeVariant, pipeInput, destFile, writes, result, threwAt>>
  /\ UNCHANGED notPipeVars

(* the tables become lines; tblIdBase is drawn once *)
Tables ==
  \E base \in Rand(MaxRandLen) :
    /\ pipeVariant # "off" /\ stage = "tables"
    /\ doc' = FlattenTables(pipeVariant, doc, base, 0)
    /\ pipeModified' = (pipeModified \/ HasLines(doc))
    /\ changedBy' = ChangedAfter("tables", doc')
    /\ ran' = ran \cup {"tables"}
    /\ stage' = (IF pipeVariant = "import" THEN "persist" ELSE "vertical")
    /\ UNCHANGED <<pipeVariant, pipeInput, destFile, writes, result, threwAt>>
    /\ UNCHANGED notPipeVars

(* customizeDocument: the last stage, and return modified *)
Vertical ==
  /\ pipeVariant = "common" /\ stage = "vertical"
  /\ doc' = NormaliseVertical(doc)
  /\ pipeModified' = (pipeModified \/ HasVertical(doc))
  /\ changedBy' = ChangedAfter("vertical", doc')
  /\ ran' = ran \cup {"vertical"}
  /\ result' = IF pipeModified' THEN "true" ELSE "false"
  /\ stage' = "returned"
  /\ UNCHANGED <<pipeVariant, pipeInput, destFile, writes, threwAt>>
  /\ UNCHANGED notPipeVars

(* exports.import: if (modified) writeFile(destFile, dom.serialize());
   return true *)
Persist ==
  /\ pipeVariant = "import" /\ stage = "persist"
  /\ destFile' = IF pipeModified THEN [state |-> "transformed", html |-> doc] ELSE destFile
  /\ writes' = IF pipeModified THEN writes + 1 ELSE writes
  /\ result' = "true"
  /\ stage' = "returned"
  /\ UNCHANGED <<pipeVariant, pipeInput, doc, pipeModified, changedBy, ran, threwAt>>
  /\ UNCHANGED notPipeVars

(* exports.import: writeFile rejects; what it has left of the file is not
   known; the catch returns false *)
PersistFails ==
  /\ pipeVariant = "import" /\ stage = "persist" /\ pipeModified
  /\ \E left \in {destFile, [state |-> "partial", html |-> <<>>]} : destFile' = left
  /\ threwAt' = "persist"
  /\ result' = "false"
  /\ stage' = "returned"
  /\ UNCHANGED <<pipeVariant, pipeInput, doc, pipeModified, changedBy, ran, writes>>
  /\ UNCHANGED notPipeVars

(* ---- The alignment stage, run again on its own output ---- *)

AlignIdle == alignInput = <<>> /\ alignTree = <<>> /\ alignPasses = 0

(* one run of the alignment stage on the tree *)
AlignPass ==
  /\ alignInput # <<>> /\ alignPasses < 2
  /\ alignTree' = AlignNodes(alignTree, FALSE)
  /\ alignPasses' = alignPasses + 1
  /\ UNCHANGED alignInput
  /\ UNCHANGED notAlignVars

(* ---- The colour of one styled node ---- *)

ColorIdle ==
  /\ colorVariant = "off" /\ colorInput = [str |-> <<>>, rgb |-> <<>>]
  /\ colorPhase = "off" /\ parsedRgb = <<>> /\ mappedColors = <<>>

(* const rgb = parseColorToRgb(colorAttr) *)
ParseColor ==
  /\ colorPhase = "parse"
  /\ parsedRgb' = parseColorToRgb(colorVariant, colorInput.str)
  /\ colorPhase' = "map"
  /\ UNCHANGED <<colorVariant, colorInput, mappedColors>>
  /\ UNCHANGED notColorVars

(* const mapped = findNearestColor(rgb), in one run after another *)
MapColor ==
  /\ colorPhase = "map" /\ Len(mappedColors) < MaxColorRuns
  /\ mappedColors' = Append(mappedColors, findNearestColor(parsedRgb))
  /\ UNCHANGED <<colorVariant, colorInput, colorPhase, parsedRgb>>
  /\ UNCHANGED notColorVars

(* the stages that are not running *)
(* ---- Hyperlinks, anchor by anchor ---- *)

LinkIdle == anchors = <<>> /\ linkIdx = 0 /\ linkOut = <<>>

(* an a element with the href attribute *)
AnchorOf(href) == [El("a", <<>>) EXCEPT !.href = href]

(* a normaliser that takes the beginnings in lower case only *)
LinkTokenLowerCaseOnly(a) ==
  IF ~ReplacesAnchor(a) THEN <<>>
  ELSE <<"hyperlink-">> \o
       encodeURIComponent(
         IF \E p \in SchemePrefixes : StartsWith(TrimText(a.href), p)
           THEN TrimText(a.href)
           ELSE <<"h", "t", "t", "p", ":", "/", "/">> \o TrimText(a.href))

(* the hyperlink- class of the span of the anchor, <<>> when the callback
   returns before it makes a span *)
LinkTokenOf(a) == IF ReplacesAnchor(a) THEN HyperlinkSpan(a).cls[2] ELSE <<>>

(* anchors.forEach: one call of the callback *)
LinkAnchor ==
  /\ linkIdx < Len(anchors)
  /\ linkOut' = Append(linkOut, LinkTokenOf(AnchorOf(anchors[linkIdx + 1])))
  /\ linkIdx' = linkIdx + 1
  /\ UNCHANGED anchors
  /\ UNCHANGED notLinkVars

(* ---- Paste runs: inlineImages and the insertion ---- *)

(* One record for every paste event that the handler has taken: the state
   of the async callback of each image span, and whether the callback of
   inlineImages(...).then has run.  An image is at "direct" (the direct
   fetch is pending), "proxy1" to "proxy3" (a proxy fetch is pending),
   "upload" (uploadImageToS3Browser is pending), "dims" (the Image object
   is loading), or its callback has returned: "done", "failed" (counted in
   errorCount, or replaced by the warning sign), "skipped" (no http URL),
   or it has thrown before its try block: "threw" (decodeURIComponent of a
   class that is no valid escape sequence). *)

RunIdle == runVariant = "off" /\ pasteRuns = <<>> /\ editorLog = <<>> /\ toastRun = 0

SettledSteps == {"done", "failed", "skipped"}

ProxySteps == <<"proxy1", "proxy2", "proxy3">>

(* Promise.race in its place: one callback has returned *)
AnySettled(run) ==
  run.images = <<>> \/ \E i \in 1..Len(run.images) : run.images[i] \in SettledSteps

(* Promise.all(imageSpans.map(...)) is fulfilled: every callback has
   returned *)
AllSettled(run) == \A i \in 1..Len(run.images) : run.images[i] \in SettledSteps

(* the image i of the run r goes to the step *)
WithStep(r, i, step) == [pasteRuns EXCEPT ![r].images[i] = step]

(* docxToast.updateImageUploadProgress('clipboard-images', ...): the toast
   of that id shows the counters of the run that wrote last; part_002 has
   no toast *)
ToastAfter(r, step) ==
  IF runVariant = "clipboard" /\ step \in {"done", "failed"} THEN r ELSE toastRun

(* the paste handler up to the call of inlineImages, which starts the
   callbacks of all image spans and returns a promise *)
PasteEvent ==
  /\ runVariant # "off"
  /\ Len(pasteRuns) < MaxPastes
  /\ \E n \in 0..MaxRunImages :
       \E kinds \in [1..n -> {"direct", "skipped", "threw"}] :
         /\ pasteRuns' = Append(pasteRuns, [images |-> kinds, completed |-> FALSE])
         /\ toastRun' = IF runVariant = "clipboard" /\ n > 0
                          THEN Len(pasteRuns) + 1 ELSE toastRun
  /\ UNCHANGED <<runVariant, editorLog>>
  /\ UNCHANGED notRunVars

(* fetch(url, {mode: 'cors'}) settles: a response that is ok, or a
   rejection or another status, which starts the first proxy fetch *)
DirectFetchSettles ==
  /\ \E r \in 1..Len(pasteRuns) : \E i \in 1..Len(pasteRuns[r].images) :
       /\ pasteRuns[r].images[i] = "direct"
       /\ \E ok \in BOOLEAN :
            pasteRuns' = WithStep(r, i, IF ok THEN "upload" ELSE "proxy1")
  /\ UNCHANGED <<runVariant, editorLog, toastRun>>
  /\ UNCHANGED notRunVars

(* fetch(proxyUrl) settles: ok ends the loop, anything else goes on to the
   next proxy URL, and after the third the callback gives the image up *)
ProxyFetchSettles ==
  /\ \E r \in 1..Len(pasteRuns) : \E i \in 1..Len(pasteRuns[r].images) :
       \E k \in 1..3 :
         /\ pasteRuns[r].images[i] = ProxySteps[k]
         /\ \E ok \in BOOLEAN :
              LET step == IF ok THEN "upload"
                          ELSE IF k < 3 THEN ProxySteps[k + 1] ELSE "failed"
              IN /\ pasteRuns' = WithStep(r, i, step)
                 /\ toastRun' = ToastAfter(r, step)
  /\ UNCHANGED <<runVariant, editorLog>>
  /\ UNCHANGED notRunVars

(* uploadImageToS3Browser settles: with the public URL, or with null (it
   catches its own errors) *)
UploadSettles ==
  /\ \E r \in 1..Len(pasteRuns) : \E i \in 1..Len(pasteRuns[r].images) :
       /\ pasteRuns[r].images[i] = "upload"
       /\ \E ok \in BOOLEAN :
            LET step == IF ok THEN "dims" ELSE "failed"
            IN /\ pasteRuns' = WithStep(r, i, step)
               /\ toastRun' = ToastAfter(r, step)
  /\ UNCHANGED <<runVariant, editorLog>>
  /\ UNCHANGED notRunVars

(* the Image object fires onload or onerror: clipboard.js ignores the
   error, part_002 replaces the span by the warning sign *)
ImageLoadSettles ==
  /\ \E r \in 1..Len(pasteRuns) : \E i \in 1..Len(pasteRuns[r].images) :
       /\ pasteRuns[r].images[i] = "dims"
       /\ \E ok \in BOOLEAN :
            LET step == IF ok \/ runVariant = "clipboard" THEN "done" ELSE "failed"
            IN /\ pasteRuns' = WithStep(r, i, step)
               /\ toastRun' = ToastAfter(r, step)
  /\ UNCHANGED <<runVariant, editorLog>>
  /\ UNCHANGED notRunVars

(* inlineImages(cleanedHtml).then(...): the promise is fulfilled and the
   callback runs, which puts finalHtml into the editor (at the caret; what
   it does when the caret is in a table line is TablePaste below).  There
   is no rejection handler: after a callback has thrown nothing runs. *)
InsertFinalHtml ==
  /\ \E r \in 1..Len(pasteRuns) :
       /\ ~pasteRuns[r].completed
       /\ AllSettled(pasteRuns[r])
       /\ pasteRuns' = [pasteRuns EXCEPT ![r].completed = TRUE]
       /\ editorLog' = Append(editorLog, r)
  /\ UNCHANGED <<runVariant, toastRun>>
  /\ UNCHANGED notRunVars

(* ---- Soft breaks: Shift+Enter in a numbered line ---- *)

(* The editor document is a sequence of lines: the length of the line's
   text (a list line begins with its line marker, so its text is never
   empty and the caret is behind the marker), whether its list attribute
   contains 'number', and whether its first character carries listbreak.
   id names the line: 1, 2, .. the lines of the start, 10 + b the line
   that soft break b created, 20 + e the line that edit e inserted. *)

SoftIdle == edLines = <<>> /\ timers = <<>> /\ softBreaks = 0 /\ fired = {} /\ edits = 0

EdLine(id, len, numbered) ==
  [id |-> id, len |-> len, numbered |-> numbered, listbreak |-> FALSE]

InsertAt(s, k, e) == SubSeq(s, 1, k - 1) \o <<e>> \o SubSeq(s, k, Len(s))

(* ace_performDocumentApplyAttributesToRange([l, 0], [l, endCol], ...):
   the characters of the range get the attribute; an empty range has
   none *)
ApplyListbreak(lines, l, endCol) ==
  IF endCol > 0 THEN [lines EXCEPT ![l].listbreak = TRUE] ELSE lines

(* the callback of setTimeout: newLine = lineNum + 1 of the keystroke, in
   the document as it is now (lines are counted from 1 here) *)
TaggedByTimer(lines, newLine) ==
  IF newLine > Len(lines) THEN lines
  ELSE ApplyListbreak(lines, newLine, Min(1, lines[newLine].len))

(* aceKeyEvent for a Shift+Enter keydown with the caret at column c of the
   numbered line l: the selection is replaced by a line feed and the
   tagging of line l + 1 is put off to the next tick *)
ShiftEnter ==
  /\ softBreaks < MaxSoftBreaks
  /\ \E l \in 1..Len(edLines) : \E c \in 1..edLines[l].len :
       /\ edLines[l].numbered
       /\ edLines' = InsertAt([edLines EXCEPT ![l].len = c], l + 1,
                              EdLine(10 + softBreaks + 1, edLines[l].len - c, FALSE))
       /\ timers' = Append(timers, [newLine |-> l + 1, break |-> softBreaks + 1])
  /\ softBreaks' = softBreaks + 1
  /\ UNCHANGED <<fired, edits>>
  /\ UNCHANGED notSoftVars

(* the timer fires *)
TagNewLine ==
  /\ timers # <<>>
  /\ edLines' = TaggedByTimer(edLines, Head(timers).newLine)
  /\ fired' = fired \cup {Head(timers).break}
  /\ timers' = Tail(timers)
  /\ UNCHANGED <<softBreaks, edits>>
  /\ UNCHANGED notSoftVars

(* another edit is applied to the document: a collaborator's changeset
   that inserts a line at the top *)
LineInsertedAbove ==
  /\ edits < MaxEdits
  /\ edLines' = <<EdLine(20 + edits + 1, 1, FALSE)>> \o edLines
  /\ edits' = edits + 1
  /\ UNCHANGED <<timers, softBreaks, fired>>
  /\ UNCHANGED notSoftVars

(* another edit: a character is typed at the end of a line *)
CharacterTyped ==
  /\ edits < MaxEdits
  /\ \E l \in 1..Len(edLines) :
       /\ edLines[l].len < MaxLineLen
       /\ edLines' = [edLines EXCEPT ![l].len = @ + 1]
  /\ edits' = edits + 1
  /\ UNCHANGED <<timers, softBreaks, fired>>
  /\ UNCHANGED notSoftVars

(* ---- Paste with the caret on a table line ---- *)

(* The .then callback of the paste handler when insideTableCell is true.
   A line of the editor is its text and whether it carries the tbljson
   attribute; a position is a line (counted from 1 here) and a column
   (from 0); a segment is the text of one text node of finalHtml. *)

TAB == "TAB"

TablePasteIdle ==
  /\ tpVariant = "off" /\ tpBefore = <<>> /\ tpLines = <<>>
  /\ selStart = [line |-> 0, col |-> 0] /\ selEnd = [line |-> 0, col |-> 0]
  /\ segments = <<>> /\ tpPhase = "off" /\ insertedText = <<>>

(* the loop over cells: the first cell whose columns hold col, with the
   column where it ends; index -1 when there is none *)
RECURSIVE TargetCell(_, _, _, _)
TargetCell(cells, i, currentOffset, col) ==
  IF i > Len(cells) THEN [index |-> -1, cellEndCol |-> 0]
  ELSE IF col >= currentOffset /\ col <= currentOffset + Len(cells[i])
    THEN [index |-> i - 1, cellEndCol |-> currentOffset + Len(cells[i])]
  ELSE TargetCell(cells, i + 1, currentOffset + Len(cells[i]) + 1, col)

(* targetCellIndex === -1 || selEnd[1] > cellEndCol *)
Refused(target, from, to) == target.index = -1 \/ to.col > target.cellEndCol

(* .replace(/\s+/g, ' ') *)
RECURSIVE CollapseSpaces(_)
CollapseSpaces(s) ==
  IF Len(s) < 2 THEN s
  ELSE IF s[1] = " " /\ s[2] = " " THEN CollapseSpaces(Tail(s))
  ELSE <<Head(s)>> \o CollapseSpaces(Tail(s))

(* line breaks, the delimiter and tabs become spaces; clipboard.js then
   collapses runs of white space; trim() *)
SanitiseSegment(v, text) ==
  LET spaced == [i \in 1..Len(text) |->
                   IF text[i] \in {LF, DELIMITER, TAB} THEN " " ELSE text[i]]
  IN TrimText(IF v = "clipboard" THEN CollapseSpaces(spaced) ELSE spaced)

(* the sanitised segments that are not empty *)
RECURSIVE CleanedSegments(_, _)
CleanedSegments(v, segs) ==
  IF segs = <<>> THEN <<>>
  ELSE (IF SanitiseSegment(v, Head(segs)) # <<>>
          THEN <<SanitiseSegment(v, Head(segs))>> ELSE <<>>)
       \o CleanedSegments(v, Tail(segs))

(* the insertion loop: the segments one after the other at the caret, a
   space between two of them when neither side has white space there *)
RECURSIVE InsertionOf(_, _)
InsertionOf(cleaned, k) ==
  IF k > Len(cleaned) THEN <<>>
  ELSE (IF k > 1 /\ cleaned[k - 1][Len(cleaned[k - 1])] # " " /\ cleaned[k][1] # " "
          THEN <<" ">> ELSE <<>>)
       \o cleaned[k] \o InsertionOf(cleaned, k + 1)

(* ace_performDocumentReplaceRange(from, to, text) *)
ReplaceRange(lines, from, to, text) ==
  SubSeq(lines, 1, from.line - 1)
    \o <<[lines[from.line] EXCEPT
            !.text = SubSeq(@, 1, from.col) \o text
                       \o SubSeq(lines[to.line].text, to.col + 1, Len(lines[to.line].text))]>>
    \o SubSeq(lines, to.line + 1, Len(lines))

(* the lines after the callback, given the target cell and the cleaned
   segments: as they were when the paste is given up *)
LinesAfterPaste(target, cleaned) ==
  IF Refused(target, selStart, selEnd) \/ cleaned = <<>> THEN tpLines
  ELSE ReplaceRange(tpLines, selStart, selEnd, InsertionOf(cleaned, 1))

(* the callback, with the caret on a table line *)
TablePaste ==
  /\ tpPhase = "ready"
  /\ tpLines' = LinesAfterPaste(
                  TargetCell(Split(tpLines[selStart.line].text, DELIMITER), 1, 0, selStart.col),
                  CleanedSegments(tpVariant, segments))
  /\ insertedText' =
       IF Refused(TargetCell(Split(tpLines[selStart.line].text, DELIMITER), 1, 0,
                             selStart.col), selStart, selEnd)
         THEN <<>> ELSE InsertionOf(CleanedSegments(tpVariant, segments), 1)
  /\ tpPhase' =
       IF \/ Refused(TargetCell(Split(tpLines[selStart.line].text, DELIMITER), 1, 0,
                                selStart.col), selStart, selEnd)
          \/ CleanedSegments(tpVariant, segments) = <<>>
         THEN "aborted" ELSE "pasted"
  /\ UNCHANGED <<tpVariant, tpBefore, selStart, selEnd, segments>>
  /\ UNCHANGED notTpVars

(* ---- The image proxy: GET /ep_docx_image_proxy ---- *)

RATE_LIMIT_WINDOW_MS == 60000

RATE_LIMIT_MAX_REQUESTS == 30

(* the clients, and the requests they send *)
Clients == {"198.51.100.1", "198.51.100.2"}

MaxRequestsOf(ip) == IF ip = "198.51.100.1" THEN MaxBusyRequests ELSE MaxOtherRequests

Hosts ==
  {<<"example", "com">>, <<"localhost">>, <<"LOCALHOST">>, <<"10", "0", "0", "1">>,
   <<"172", "16", "0", "1">>, <<"172", "32", "0", "1">>, <<"192", "168", "1", "1">>,
   <<"192", "169", "1", "1">>}

Urls ==
  [scheme : {"http://", "HTTPS://", "ftp://", ""}, host : Hosts, malformed : {FALSE}]
    \cup {[scheme |-> "http://", host |-> <<>>, malformed |-> TRUE]}

Requests == [session : BOOLEAN, ip : Clients, url : Urls]

ProxyIdle ==
  /\ rateLimitStore = <<>> /\ clock = 0 /\ fetchAvailable = FALSE
  /\ lastStatus = -1 /\ upstream = <<>>

(* a host as its labels; hostname.toLowerCase() on the first label *)
LowerLabel(label) == IF label = "LOCALHOST" THEN "localhost" ELSE label

(* _isForbiddenHost: no host, localhost, ::1, or a first label (followed
   by a dot) of 127, 10, 0, 169.254, 192.168, 172.16 to 172.31 *)
isForbiddenHost(host) ==
  \/ host = <<>>
  \/ Len(host) = 1 /\ LowerLabel(host[1]) \in {"localhost", "::1"}
  \/ Len(host) >= 2 /\ host[1] \in {"127", "10", "0"}
  \/ Len(host) >= 3 /\ <<host[1], host[2]>> \in {<<"169", "254">>, <<"192", "168">>}
  \/ Len(host) >= 3 /\ host[1] = "172" /\ host[2] \in {"16", "20", "31"}

(* the status of a request rejected before the limiter, 0 when it gets
   to the limiter: no session, no url or not http(s), a host that is
   forbidden, a url that new URL() does not parse *)
EarlyStatus(req) ==
  IF ~req.session THEN 401
  ELSE IF req.url.scheme \notin {"http://", "HTTPS://", "https://"} THEN 400
  ELSE IF req.url.malformed THEN 400
  ELSE IF isForbiddenHost(req.url.host) THEN 400
  ELSE 0

(* the statuses the requests get before the limiter *)
EarlyStatuses == {EarlyStatus(req) : req \in Requests}

(* the client sends a request that gets to the limiter *)
ReachesLimiter(ip) == \E req \in Requests : req.ip = ip /\ EarlyStatus(req) = 0

(* timestamps.filter((t) => t > now - RATE_LIMIT_WINDOW_MS) *)
Fresh(timestamps, now) ==
  SelectSeq(timestamps, LAMBDA t : t > now - RATE_LIMIT_WINDOW_MS)

(* a limiter that lets one more through *)
OverLimitByOne(timestamps) == Len(timestamps) > RATE_LIMIT_MAX_REQUESTS

(* timestamps.length >= RATE_LIMIT_MAX_REQUESTS *)
OverLimit(timestamps) == Len(timestamps) >= RATE_LIMIT_MAX_REQUESTS

(* a request answered before the limiter: 401 or 400 *)
RejectEarly ==
  /\ lastStatus >= 0
  /\ lastStatus' \in EarlyStatuses \ {0}
  /\ UNCHANGED <<rateLimitStore, clock, fetchAvailable, upstream>>
  /\ UNCHANGED notPxVars

(* a request that finds the client at its limit: 429, nothing stored *)
TooManyRequests ==
  /\ lastStatus >= 0
  /\ \E ip \in Clients :
       /\ ReachesLimiter(ip)
       /\ OverLimit(Fresh(rateLimitStore[ip], clock))
       /\ lastStatus' = 429
  /\ UNCHANGED <<rateLimitStore, clock, fetchAvailable, upstream>>
  /\ UNCHANGED notPxVars

(* a request let through: its time is stored behind the fresh ones and
   the upstream fetch is made; the answer is the upstream's (200 here), or 504 /
   502 when the fetch is aborted or fails *)
FetchUpstream ==
  /\ lastStatus >= 0 /\ fetchAvailable
  /\ \E ip \in Clients :
       /\ ReachesLimiter(ip)
       /\ ~OverLimit(Fresh(rateLimitStore[ip], clock))
       /\ Len(upstream[ip]) < MaxRequestsOf(ip)
       /\ rateLimitStore' = [rateLimitStore EXCEPT
                               ![ip] = Append(Fresh(@, clock), clock)]
       /\ upstream' = [upstream EXCEPT ![ip] = Append(@, clock)]
  /\ lastStatus' \in {200, 502, 504}
  /\ UNCHANGED <<clock, fetchAvailable>>
  /\ UNCHANGED notPxVars

(* a request let through on a server without fetch: stored, then 500 *)
FetchUnavailable ==
  /\ lastStatus >= 0 /\ ~fetchAvailable
  /\ \E ip \in Clients :
       /\ ReachesLimiter(ip)
       /\ ~OverLimit(Fresh(rateLimitStore[ip], clock))
       /\ Len(rateLimitStore[ip]) < MaxRequestsOf(ip)
       /\ rateLimitStore' = [rateLimitStore EXCEPT
                               ![ip] = Append(Fresh(@, clock), clock)]
  /\ lastStatus' = 500
  /\ UNCHANGED <<clock, fetchAvailable, upstream>>
  /\ UNCHANGED notPxVars

(* Date.now() goes on *)
ClockTick ==
  /\ lastStatus >= 0
  /\ clock < MaxNow
  /\ clock' = clock + ClockStep
  /\ UNCHANGED <<rateLimitStore, fetchAvailable, lastStatus, upstream>>
  /\ UNCHANGED notPxVars

(* the later parts are idle *)
RestIdle ==
  /\ LinkIdle
  /\ RunIdle
  /\ SoftIdle
  /\ TablePasteIdle
  /\ ProxyIdle

LaterIdle == ImgIdle /\ PipeIdle /\ AlignIdle /\ ColorIdle /\ RestIdle

\* ---- inputs ----
-----------------------------------------------------------------------------
(* Inputs *)

Cells(CS, RS, CT) == [colspan : CS, rowspan : RS, content : CT]

(* Grid inputs: every mix of colspan and rowspan over MaxRows rows of up to
   MaxCells cells *)
GridCells == Cells({<<>>, <<"2">>}, {<<>>, <<"2">>, <<"3">>}, {<<"a">>})

(* the tables of at most r rows, m cells a row and k cells in all *)
RECURSIVE TablesWithin(_, _, _, _)
TablesWithin(C, r, m, k) ==
  IF r = 0 THEN {<<>>}
  ELSE {<<>>} \cup
       UNION {{<<row>> \o t :
                 row \in {x \in SeqsUpTo(C, n) : Len(x) = n},
                 t \in TablesWithin(C, r - 1, m, k - n)} : n \in 0..Min(m, k)}

GridTables(maxRows) == TablesWithin(GridCells, maxRows, MaxCells, MaxTableCells)

TableInit(docs, bases) ==
  /\ variant \in {"common", "import"}
  /\ tables \in docs
  /\ tblIdBase \in bases
  /\ tableIdx = 0
  /\ phase = "next"
  /\ Idle
  /\ output = <<>>
  /\ modified = FALSE
  /\ EncIdle /\ PasteIdle /\ HookIdle /\ ListIdle /\ LaterIdle

(* Cell inputs: invalid spans and contents with the delimiter, line breaks
   and white space, in tables of up to MaxCellRows rows and MaxCellCells
   cells *)
ContentChars == {"a", " ", DELIMITER, BR}

ContentCells ==
  Cells({<<>>, <<"2">>, <<"x">>, <<"0">>}, {<<>>}, SeqsUpTo(ContentChars, MaxContent))

ContentTables(maxRows) == TablesWithin(ContentCells, maxRows, MaxCells, MaxCellCells)

(* Document inputs: up to MaxTables tables, among them tables the stage
   skips *)
PlainCell == [colspan |-> <<>>, rowspan |-> <<>>, content |-> <<"a">>]

TallCell == [colspan |-> <<>>, rowspan |-> <<"2">>, content |-> <<"a">>]

DocTables == {<<>>, << <<>> >>, << <<PlainCell>> >>, << <<TallCell>>, <<PlainCell>> >>}

Docs(maxTables) == SeqsUpTo(DocTables, maxTables) \ {<<>>}

(* Token inputs: the JSON text of metadata records, and every string of up
   to MaxValueLen characters over a few ASCII characters, among them those
   whose code ends a group of three with the base64 symbols "+" and "/" *)
ValueChars == {"a", ">", "?", "~", "_", "-"}

MetaRecords == [tblId : {<<"a", "-", "0">>, <<"-", "1">>}, row : 0..1, cols : {1, 12}]

MetaTexts == {JSONStringify(m) : m \in MetaRecords}

EncInit ==
  /\ attribValue \in MetaTexts \cup SeqsUpTo(ValueChars, MaxValueLen)
  /\ encPhase = "attrib"
  /\ encodedBy = "none"
  /\ cls = <<>>
  /\ collected = <<>>

EncNext == EncodeMeta(MetaTexts) \/ aceAttribsToClasses \/ tableCollectContentPre

(* Paste inputs: the destination's tblIds, and up to MaxPasteEls clipboard
   elements: cells of rendered table lines (their ids of both mints,
   `${base}-${idx}` and rand() + rand()), an element whose token does not
   decode, one whose token is not a record, and one without a token *)
PasteIds == {<<"a", "-", "0">>, <<"a", "a">>}

LineClasses(id, row) ==
  <<TBLJSON_PREFIX \o enc(JSONStringify([tblId |-> id, row |-> row, cols |-> 1])),
    TBLCELL_PREFIX \o <<"0">>>>

PasteElements ==
  {LineClasses(id, row) : id \in PasteIds, row \in 0..1}
    \cup {<<TBLJSON_PREFIX \o <<"!">>>>, <<TBLJSON_PREFIX \o enc(<<"a">>)>>, <<<<"b">>>>}

PasteInit(maxEls) ==
  /\ pasteVariant \in {"clipboard", "part_002"}
  /\ needsTransformation \in BOOLEAN
  /\ destIds \in SUBSET PasteIds
  /\ pasted \in SeqsUpTo(PasteElements, maxEls) \ {<<>>}
  /\ pastePhase = "html"
  /\ elIdx = 0
  /\ tblIdMap = {}
  /\ inserted = <<>>

PasteNext == PasteSkipped \/ PasteCustomize \/ RegenerateElement(MaxRandLen) \/ PasteInsert

(* Hook inputs: the elements the collector may come to, in any nesting of
   up to MaxOpen elements, while state.start is below MaxStart *)
HookElements == {<<"ol", <<>>>>, <<"ul", <<>>>>, <<"p", <<>>>>,
                 <<"li", <<>>>>, <<"li", <<"listbreak">>>>}

HookInit == HookIdle

HookNext ==
  \/ \E el \in HookElements : collectContentPre(el[1], el[2], MaxOpen, MaxStart)
  \/ CollectorEnter
  \/ collectContentPost
  \/ CollectorExit

(* List inputs: one or two sibling top-level lists; the first has up to
   MaxItems children, an li among them may hold a nested list, and an li of
   that a deeper one *)
StartAttrs == {<<>>, <<"3">>, <<"x">>, <<"0">>}

Item(nested) == [tag |-> "li", nested |-> nested]

OtherChild == [tag |-> "p", nested |-> <<>>]

DeepList == [start |-> <<"3">>, children |-> <<Item(<<>>)>>]

NestedLists ==
  [start : {<<>>, <<"3">>},
   children : SeqsUpTo({Item(<<>>), Item(<<DeepList>>)}, 2) \ {<<>>}]

TopLists(maxItems) ==
  [start : StartAttrs,
   children : SeqsUpTo({OtherChild, Item(<<>>)} \cup {Item(<<n>>) : n \in NestedLists},
                       maxItems)]

SecondLists == [start : StartAttrs, children : {<<Item(<<>>)>>, <<Item(<<>>), Item(<<>>)>>}]

ListDocs(maxItems) ==
  {<<a>> : a \in TopLists(maxItems)}
    \cup {<<a, b>> : a \in TopLists(maxItems), b \in SecondLists}

ListInit(docs) ==
  /\ lists \in docs
  /\ allOrderedLists = QueryOrderedLists(lists, 1)
  /\ olIdx = 0
  /\ flat = [i \in 1..Len(lists) |-> [done |-> FALSE, divs |-> <<>>]]
  /\ listModified = FALSE

ListNext == FlattenList \/ FlattenDetachedList

(* Image inputs: one img of every source, width, height and CSS rule, or
   up to maxImages of the few of SmallImages *)
ImageSrcs == {<<>>, <<"/", "a">>, <<"a", ".", "p">>}

ImageWidths ==
  {<<>>, <<"1", "0", "0">>, <<"3">>, <<"1", ".", "5">>, <<"5", "0", "%">>, <<"0">>,
   <<"1", "0", "p", "x">>}

ImageHeights == {<<>>, <<"5", "0">>, <<"7">>, <<"0">>, <<"5", "0", "%">>}

CssEntries == {[w |-> <<>>, h |-> <<>>], [w |-> <<"8">>, h |-> <<"4">>]}

AllImages == [src : ImageSrcs, width : ImageWidths, height : ImageHeights, css : CssEntries]

SmallImages ==
  [src : {<<>>, <<"a", ".", "p">>}, width : {<<"1", "0", "0">>}, height : {<<"5", "0">>},
   css : {[w |-> <<>>, h |-> <<>>]}]

ImageDocs(maxImages) ==
  {<<i>> : i \in AllImages}
    \cup {s \in SeqsUpTo(SmallImages, maxImages) : Len(s) >= 2}

ImgInit(maxImages) ==
  /\ imgVariant \in {"common", "import"}
  /\ images \in ImageDocs(maxImages)
  /\ imgIdx = 0
  /\ imgOut = [i \in 1..Len(images) |-> <<ImgNode>>]
  /\ imgModified = FALSE

ImgNext == ImageSkipped \/ ImageReplaced

(* Pipeline inputs: a document of one element of PipeElements, followed by
   up to maxEls - 1 of FewElements *)
X == Txt(<<"x">>)

Img(src) == [El("img", <<>>) EXCEPT !.src = src]

Aligned(tag, align, kids) == [El(tag, kids) EXCEPT !.align = align]

Anchor(href, kids) == [El("a", kids) EXCEPT !.href = href]

Colored(color, classes) == [El("font", <<X>>) EXCEPT !.color = color, !.cls = classes]

Sized(size) == [El("span", <<X>>) EXCEPT !.fontSize = size]

Raised(valign, kids) == [El("span", kids) EXCEPT !.valign = valign]

OneCellTable(kids) == El("table", <<El("tr", <<El("td", kids)>>)>>)

AbsSrc == <<"/", "a">>

CENTER == <<"c", "e", "n", "t", "e", "r">>

RIGHT == <<"r", "i", "g", "h", "t">>

RED == <<"r", "e", "d">>

PipeElements ==
  {El("p", <<X>>),
   El("h1", <<X>>),
   Aligned("h1", CENTER, <<X>>),
   Aligned("p", CENTER, <<X>>),
   Aligned("p", <<"l", "e", "f", "t">>, <<X>>),
   Aligned("p", RIGHT, <<Img(AbsSrc)>>),
   Aligned("div", CENTER, <<Aligned("p", RIGHT, <<X>>)>>),
   El("ol", <<>>),
   El("ol", <<El("li", <<X>>)>>),
   El("ol", <<El("li", <<Img(AbsSrc)>>)>>),
   El("ol", <<El("li", <<X, El("ol", <<El("li", <<X>>)>>)>>)>>),
   Img(AbsSrc),
   Img(<<>>),
   Img(<<"a", ".", "p">>),
   Img(<<"m", ".", "p">>),
   Anchor(<<"u">>, <<X>>),
   Anchor(<<>>, <<X>>),
   Anchor(<<"u">>, <<>>),
   Anchor(<<"/", "u">>, <<Img(AbsSrc)>>),
   Colored(RED, <<>>),
   Colored(<<"b", "l", "a", "c", "k">>, <<>>),
   Colored(<<"i", "n", "h", "e", "r", "i", "t">>, <<>>),
   Colored(RED, <<<<"color:", "red">>>>),
   Colored(RED, <<<<"color:", "blue">>>>),
   [Sized(<<"1", "2", "p", "t">>) EXCEPT !.cls = <<<<"font-size:", "8">>>>],
   Sized(<<"1", "4", "p", "x">>),
   Sized(<<"1", "2", "p", "t">>),
   El("table", <<>>),
   El("table", <<El("tr", <<>>)>>),
   OneCellTable(<<X>>),
   OneCellTable(<<Img(AbsSrc)>>),
   OneCellTable(<<El("p", <<Img(AbsSrc)>>)>>),
   OneCellTable(<<X, Anchor(<<"u">>, <<X>>)>>),
   OneCellTable(<<El("h1", <<X>>)>>),
   El("table", <<El("tr", <<El("td", <<X>>), El("td", <<Br>>)>>), El("tr", <<El("td", <<X>>)>>)>>),
   Raised(<<"s", "u", "p", "e", "r">>, <<X>>),
   Raised(<<"s", "u", "b">>, <<Img(AbsSrc)>>),
   Raised(<<"m", "i", "d", "d", "l", "e">>, <<X>>)}

FewElements == {El("p", <<X>>), Img(AbsSrc), Colored(<<"i", "n", "h", "e", "r", "i", "t">>, <<>>)}

PipeDocs(maxEls) ==
  {<<e>> \o s : e \in PipeElements, s \in SeqsUpTo(FewElements, maxEls - 1)}

PipeInit(docs) ==
  /\ pipeVariant \in {"common", "import"}
  /\ pipeInput \in docs
  /\ doc = IF pipeVariant = "import" THEN <<>> ELSE pipeInput
  /\ stage = IF pipeVariant = "import" THEN "convert" ELSE "headings"
  /\ pipeModified = FALSE
  /\ changedBy = {}
  /\ ran = {}
  /\ destFile = [state |-> "absent", html |-> <<>>]
  /\ writes = 0
  /\ result = "none"
  /\ threwAt = "none"

PipeNext ==
  \/ ConvertFails
  \/ Convert
  \/ RenameAndParse
  \/ StageThrows
  \/ Headings
  \/ Alignment
  \/ Lists
  \/ Images
  \/ Hyperlinks
  \/ Styles
  \/ Tables
  \/ Vertical
  \/ Persist
  \/ PersistFails

(* Alignment inputs: a div, a heading or a wrapper element with an align
   value, holding a text or one such element, down to the depth *)
AlignValues ==
  {<<>>, CENTER, <<"l", "e", "f", "t">>, <<"R", "i", "g", "h", "t">>, <<"x">>}

RECURSIVE AlignTrees(_)
AlignTrees(depth) ==
  IF depth = 0 THEN {X}
  ELSE {Aligned(tag, align, <<kid>>) :
          tag \in {"div", "h1", "center"}, align \in AlignValues, kid \in AlignTrees(depth - 1)}
       \cup {X, OneCellTable(<<Aligned("p", CENTER, <<X>>)>>)}

AlignInit(trees) ==
  /\ alignInput \in {<<t>> : t \in trees}
  /\ alignTree = alignInput
  /\ alignPasses = 0

AlignNext == AlignPass

(* Colour inputs: the named colours of the copy, and the RGB values over
   ColorChannels in the notations rgb(r,g,b), rgb( r , g , b ), #rrggbb,
   RRGGBB and, where every byte has two equal digits, #rgb *)
ColorChannels == {0, 64, 128, 136, 210, 255}

HexText(n) == <<HexChars[(n \div 16) + 1], HexChars[(n % 16) + 1]>>

RgbText(rgb, gap) ==
  <<"r", "g", "b", "(">> \o gap \o IntToString(rgb[1]) \o gap \o <<",">> \o gap
    \o IntToString(rgb[2]) \o gap \o <<",">> \o gap \o IntToString(rgb[3]) \o gap \o <<")">>

Hex6Text(rgb) == HexText(rgb[1]) \o HexText(rgb[2]) \o HexText(rgb[3])

Hex3Text(rgb) == <<HexText(rgb[1])[1], HexText(rgb[2])[1], HexText(rgb[3])[1]>>

ToUpperCase(s) ==
  [i \in 1..Len(s) |->
     IF s[i] \in Range(LowerChars)
       THEN UpperChars[CHOOSE k \in 1..26 : LowerChars[k] = s[i]]
       ELSE s[i]]

NotationsOf(rgb) ==
  {RgbText(rgb, <<>>), RgbText(rgb, <<" ">>), <<"#">> \o Hex6Text(rgb),
   ToUpperCase(Hex6Text(rgb))}
    \cup (IF \A k \in 1..3 : rgb[k] % 17 = 0 THEN {<<"#">> \o Hex3Text(rgb)} ELSE {})

ColorInputs(v) ==
  {[str |-> c.name, rgb |-> c.rgb] : c \in NamedColors(v)}
    \cup UNION {{[str |-> n, rgb |-> <<r, g, b>>] : n \in NotationsOf(<<r, g, b>>)} :
                 r \in ColorChannels, g \in ColorChannels, b \in ColorChannels}

ColorInit ==
  /\ colorVariant \in {"common", "import"}
  /\ colorInput \in ColorInputs(colorVariant)
  /\ colorPhase = "parse"
  /\ parsedRgb = <<>>
  /\ mappedColors = <<>>

ColorNext == ParseColor \/ MapColor

(* Hyperlink inputs: up to MaxAnchors anchors; an href is a beginning (a
   recognised one in lower or upper case, one that is nearly one, or
   none), a rest with characters that encodeURIComponent escapes, and
   white space before or after *)
HrefBeginnings ==
  SchemePrefixes \cup
  {<<>>, <<"H", "T", "T", "P", ":", "/", "/">>, <<"M", "a", "i", "l", "t", "o", ":">>,
   <<"h", "t", "t", "p", ":", "/">>, <<"f", "t", "p">>, <<"w", "w", "w", ".">>}

HrefRests == {<<>>, <<"a">>, <<"a", " ", "b">>, <<"a", "#", "b">>, <<"%", "?", "@">>}

HrefPads == {<<>>, <<" ">>, <<LF, NBSP>>}

Hrefs ==
  {l \o b \o r \o t : l \in HrefPads, b \in HrefBeginnings, r \in HrefRests, t \in {<<>>, <<" ">>}}

LinkInit ==
  /\ anchors \in SeqsUpTo(Hrefs, MaxAnchors) \ {<<>>}
  /\ linkIdx = 0
  /\ linkOut = <<>>

LinkNext == LinkAnchor

(* Paste run inputs: up to MaxPastes paste events of up to MaxRunImages
   image spans each (with an http URL, with another one, or with a class
   that does not decode), in either copy of the handler *)
RunInit ==
  /\ runVariant \in {"clipboard", "part_002"}
  /\ pasteRuns = <<>>
  /\ editorLog = <<>>
  /\ toastRun = 0

RunNext ==
  \/ PasteEvent
  \/ DirectFetchSettles
  \/ ProxyFetchSettles
  \/ UploadSettles
  \/ ImageLoadSettles
  \/ InsertFinalHtml

(* Soft break inputs: one or two lines of 1 to MaxLineLen characters, each
   numbered or not *)
SoftLines(id) == {EdLine(id, len, numbered) : len \in 1..MaxLineLen, numbered \in BOOLEAN}

SoftInit ==
  /\ edLines \in {<<a>> : a \in SoftLines(1)} \cup {<<a, b>> : a \in SoftLines(1), b \in SoftLines(2)}
  /\ timers = <<>>
  /\ softBreaks = 0
  /\ fired = {}
  /\ edits = 0

SoftNext == ShiftEnter \/ TagNewLine \/ LineInsertedAbove \/ CharacterTyped

(* Table paste inputs: a document of two lines, the first a table line;
   a selection that starts on the first line and ends at or after its
   start, on either line; up to MaxSegments text segments with the
   delimiter, line feeds, tabs and spaces *)
LineTexts == {<<"a", DELIMITER, "b">>, <<"a">>, <<DELIMITER>>}

SegmentTexts ==
  {<<"a">>, <<"a", DELIMITER, "b">>, <<LF>>, <<"a", LF, "b">>, <<TAB, "a">>, <<"a", " ", TAB, "b">>}

Positions(lines, l) == {[line |-> l, col |-> c] : c \in 0..Len(lines[l].text)}

TablePasteInit ==
  /\ tpVariant \in {"clipboard", "part_002"}
  /\ tpBefore \in {<<[text |-> a, tbljson |-> TRUE], [text |-> b, tbljson |-> t]>> :
                     a \in LineTexts, b \in LineTexts, t \in BOOLEAN}
  /\ tpLines = tpBefore
  /\ selStart \in Positions(tpBefore, 1)
  /\ selEnd \in {p \in Positions(tpBefore, 1) : p.col >= selStart.col}
               \cup Positions(tpBefore, 2)
  /\ segments \in SeqsUpTo(SegmentTexts, MaxSegments) \ {<<>>}
  /\ tpPhase = "ready"
  /\ insertedText = <<>>

TablePasteNext == TablePaste

(* Proxy inputs: two clients, the second one with at most
   MaxOtherRequests requests let through; requests with and without a
   session, with urls of each kind; a clock that goes in steps of
   ClockStep up to MaxNow *)
ProxyInit ==
  /\ rateLimitStore = [ip \in Clients |-> <<>>]
  /\ clock = 0
  /\ fetchAvailable \in BOOLEAN
  /\ lastStatus = 0
  /\ upstream = [ip \in Clients |-> <<>>]

ProxyNext ==
  \/ RejectEarly
  \/ TooManyRequests
  \/ FetchUpstream
  \/ FetchUnavailable
  \/ ClockTick

\* ---- specifications ----
-----------------------------------------------------------------------------
(* Specifications.  Each starts one part of the program on its inputs. *)

(* the table stage on one table of GridTables *)
Init == TableInit({<<t>> : t \in GridTables(MaxRows)}, {<<"a">>})

Next == TableNext

Spec == Init /\ [][Next]_vars

(* the table stage on one table of ContentTables *)
InitCells == TableInit({<<t>> : t \in ContentTables(MaxCellRows)}, {<<"a">>})

NextCells == TableNext

SpecCells == InitCells /\ [][NextCells]_vars

(* the table stage on a document of several tables *)
InitDoc == TableInit(Docs(MaxTables), Rand(MaxRandLen))

NextDoc == TableNext

SpecDoc == InitDoc /\ [][NextDoc]_vars

(* the token of every value, from the attribute to the class and back *)
TableOff ==
  /\ variant = "common" /\ tables = <<>> /\ tblIdBase = <<>> /\ tableIdx = 0
  /\ phase = "off" /\ Idle /\ output = <<>> /\ modified = FALSE

InitEnc == EncInit /\ TableOff /\ PasteIdle /\ HookIdle /\ ListIdle /\ LaterIdle

NextEnc == EncNext

SpecEnc == InitEnc /\ [][NextEnc]_vars

(* the paste of rendered table lines, by either handler *)
InitPaste == PasteInit(MaxPasteEls) /\ TableOff /\ EncIdle /\ HookIdle /\ ListIdle /\ LaterIdle

NextPaste == PasteNext

SpecPaste == InitPaste /\ [][NextPaste]_vars

(* the content collector over any sequence of elements *)
InitHooks == HookInit /\ TableOff /\ EncIdle /\ PasteIdle /\ ListIdle /\ LaterIdle

NextHooks == HookNext

SpecHooks == InitHooks /\ [][NextHooks]_vars

(* the ordered-list stage on a document of one or two top-level lists *)
InitLists == ListInit(ListDocs(MaxItems)) /\ TableOff /\ EncIdle /\ PasteIdle /\ HookIdle /\ LaterIdle

NextLists == ListNext

SpecLists == InitLists /\ [][NextLists]_vars

(* the image stage on a document of images *)
InitImages ==
  /\ ImgInit(MaxImages)
  /\ TableOff /\ EncIdle /\ PasteIdle /\ HookIdle /\ ListIdle /\ PipeIdle /\ AlignIdle
  /\ ColorIdle
  /\ RestIdle

NextImages == ImgNext

SpecImages == InitImages /\ [][NextImages]_vars

(* one run of customizeDocument, or of exports.import, on a document *)
InitPipeline ==
  /\ PipeInit(PipeDocs(MaxDocEls))
  /\ TableOff /\ EncIdle /\ PasteIdle /\ HookIdle /\ ListIdle /\ ImgIdle /\ AlignIdle
  /\ ColorIdle
  /\ RestIdle

NextPipeline == PipeNext

SpecPipeline == InitPipeline /\ [][NextPipeline]_vars

(* the alignment stage, twice *)
InitAlign ==
  /\ AlignInit(AlignTrees(MaxAlignDepth))
  /\ TableOff /\ EncIdle /\ PasteIdle /\ HookIdle /\ ListIdle /\ ImgIdle /\ PipeIdle
  /\ ColorIdle
  /\ RestIdle

NextAlign == AlignNext

SpecAlign == InitAlign /\ [][NextAlign]_vars

(* the colour of a styled node, parsed and mapped *)
InitColors ==
  /\ ColorInit
  /\ TableOff /\ EncIdle /\ PasteIdle /\ HookIdle /\ ListIdle /\ ImgIdle /\ PipeIdle
  /\ AlignIdle
  /\ RestIdle

NextColors == ColorNext

SpecColors == InitColors /\ [][NextColors]_vars

(* The later parts, each alone *)
InitLinks ==
  /\ LinkInit
  /\ TableOff
  /\ EncIdle
  /\ PasteIdle
  /\ HookIdle
  /\ ListIdle
  /\ ImgIdle
  /\ PipeIdle
  /\ AlignIdle
  /\ ColorIdle
  /\ RunIdle
  /\ SoftIdle
  /\ TablePasteIdle
  /\ ProxyIdle

NextLinks == LinkNext

SpecLinks == InitLinks /\ [][NextLinks]_vars

InitRuns ==
  /\ RunInit
  /\ TableOff
  /\ EncIdle
  /\ PasteIdle
  /\ HookIdle
  /\ ListIdle
  /\ ImgIdle
  /\ PipeIdle
  /\ AlignIdle
  /\ ColorIdle
  /\ LinkIdle
  /\ SoftIdle
  /\ TablePasteIdle
  /\ ProxyIdle

NextRuns == RunNext

SpecRuns == InitRuns /\ [][NextRuns]_vars

(* The paste runs with the scheduling of the event loop: the reaction of a
   fulfilled promise is run.  No fetch of the paste flow has a timer, so
   nothing makes a pending fetch settle. *)
SpecRunsFair == SpecRuns /\ WF_vars(InsertFinalHtml)

InitSoftBreak ==
  /\ SoftInit
  /\ TableOff
  /\ EncIdle
  /\ PasteIdle
  /\ HookIdle
  /\ ListIdle
  /\ ImgIdle
  /\ PipeIdle
  /\ AlignIdle
  /\ ColorIdle
  /\ LinkIdle
  /\ RunIdle
  /\ TablePasteIdle
  /\ ProxyIdle

NextSoftBreak == SoftNext

SpecSoftBreak == InitSoftBreak /\ [][NextSoftBreak]_vars

InitTablePaste ==
  /\ TablePasteInit
  /\ TableOff
  /\ EncIdle
  /\ PasteIdle
  /\ HookIdle
  /\ ListIdle
  /\ ImgIdle
  /\ PipeIdle
  /\ AlignIdle
  /\ ColorIdle
  /\ LinkIdle
  /\ RunIdle
  /\ SoftIdle
  /\ ProxyIdle

NextTablePaste == TablePasteNext

SpecTablePaste == InitTablePaste /\ [][NextTablePaste]_vars

InitProxy ==
  /\ ProxyInit
  /\ TableOff
  /\ EncIdle
  /\ PasteIdle
  /\ HookIdle
  /\ ListIdle
  /\ ImgIdle
  /\ PipeIdle
  /\ AlignIdle
  /\ ColorIdle
  /\ LinkIdle
  /\ RunIdle
  /\ SoftIdle
  /\ TablePasteIdle

NextProxy == ProxyNext

SpecProxy == InitProxy /\ [][NextProxy]_vars

\* ---- claims ----
-----------------------------------------------------------------------------
(* Properties of the table stage *)

(* the lines of every table emitted so far, with the source table of each *)
Emitted ==
  {[src |-> output[k].src, rows |-> tables[output[k].src + 1], lines |-> output[k].lines] :
     k \in 1..Len(output)}

(* the number the spec gives a span attribute: the integer written, 1 when
   it is missing or invalid *)
SpanValue(attr) ==
  CASE attr = <<"2">> -> 2
    [] attr = <<"3">> -> 3
    [] OTHER -> 1

RECURSIVE RowWidth(_)
RowWidth(tr) == IF tr = <<>> THEN 0 ELSE SpanValue(Head(tr).colspan) + RowWidth(Tail(tr))

(* numCols as the spec defines it: the maximum over the rows of the sum of
   the row's colspans *)
MaxRowWidth(trs) ==
  IF trs = <<>> THEN 0
  ELSE CHOOSE m \in {RowWidth(trs[i]) : i \in 1..Len(trs)} :
         \A i \in 1..Len(trs) : RowWidth(trs[i]) <= m

FieldCount(line) == Len(Split(LineText(line.cells), DELIMITER))

(* C1: Table grid conservation.  For every flattened table the number of
   emitted lines equals the number of its source rows, and every emitted
   line, split on the field delimiter, has exactly numCols fields, numCols
   being the maximum over the rows of the sum of the colspans. *)
GridConservation ==
  \A e \in Emitted :
    /\ Len(e.lines) = Len(e.rows)
    /\ \A i \in 1..Len(e.lines) :
         /\ e.lines[i].meta.cols = MaxRowWidth(e.rows)
         /\ FieldCount(e.lines[i]) = MaxRowWidth(e.rows)

(* the same, counting the cells a line was built from instead of splitting
   its text: the part of C1 that does not depend on the cells' contents *)
GridCellConservation ==
  \A e \in Emitted :
    /\ Len(e.lines) = Len(e.rows)
    /\ \A i \in 1..Len(e.lines) :
         /\ e.lines[i].meta.cols = MaxRowWidth(e.rows)
         /\ Len(e.lines[i].cells) = MaxRowWidth(e.rows)

(* a table whose cell content holds the delimiter has been flattened *)
DelimiterCellFlattened ==
  \E e \in Emitted : \E i \in 1..Len(e.rows) : \E k \in 1..Len(e.rows[i]) :
    /\ DELIMITER \in Range(e.rows[i][k].content)
    /\ \E c \in 1..Len(e.lines[i].cells) : e.lines[i].src[c] = k

(* C6: Delimiter safety.  If the content of a source cell contains the field
   delimiter, the line emitted for its row still splits on the delimiter
   into exactly numCols fields: no delimiter of the content reaches the
   line. *)
DelimiterSafety ==
  \A e \in Emitted : \A i \in 1..Len(e.lines) :
    (\E k \in 1..Len(e.rows[i]) : DELIMITER \in Range(e.rows[i][k].content))
      => /\ FieldCount(e.lines[i]) = e.lines[i].meta.cols
         /\ \A c \in 1..Len(e.lines[i].cells) :
              DELIMITER \notin Range(e.lines[i].cells[c])

(* the cells of the current table placed so far with a rowspan above 1:
   row i (1-based) and logical column c (1-based) *)
PlacedSpans ==
  {p \in (1..Len(newLines)) \X (1..numCols) :
     /\ newLines[p[1]].kinds[p[2]] = "src"
     /\ SpanValue(rows[p[1]][newLines[p[1]].src[p[2]]].rowspan) > 1}

RowspanAt(p) == SpanValue(rows[p[1]][newLines[p[1]].src[p[2]]].rowspan)

(* the last row a span placed at p covers *)
LastRowOf(p) == p[1] + RowspanAt(p) - 1

(* column c of the emitted row j is a blank placeholder that consumed no
   source cell *)
BlankAt(j, c) ==
  /\ newLines[j].cells[c] = BlankCell(variant)
  /\ newLines[j].src[c] = 0

(* the rows emitted so far that a span placed at p covers below its own *)
CoveredRows(p) == (p[1] + 1)..Min(LastRowOf(p), Len(newLines))

(* no span reaches past the last row and no colspan covers a column that a
   rowspan still owes *)
WellFormedTable ==
  /\ \A p \in PlacedSpans : LastRowOf(p) <= Len(rows)
  /\ \A j \in 1..Len(newLines) : ~newLines[j].overlap

AfterLastRow == phase = "rows" /\ rowIdx = Len(rows)

CarryAllZero == \A c \in 1..numCols : pendingRowspan[c] = 0

(* C7 as claimed: Rowspan propagation.  When a source cell with rowspan r > 1
   is placed at column c in row i, column c of each of the rows i+1 .. i+r-1
   is a blank placeholder that consumes no source cell, and the carry
   counter of column c is 0 again after row i+r-1; and after the last row of
   a well-formed table every carry counter is 0. *)
RowspanPropagationAnyTable ==
  /\ \A p \in PlacedSpans :
       /\ \A j \in CoveredRows(p) : BlankAt(j, p[2])
       /\ LastRowOf(p) <= Len(newLines) => carryLog[LastRowOf(p)][p[2]] = 0
  /\ (AfterLastRow /\ WellFormedTable) => CarryAllZero

(* C7 as amended: the same, the carry counter being 0 again after row i+r-1
   provided no cell of the rows i+1 .. i+r-1 covers column c by its
   colspan. *)
RowspanPropagation ==
  /\ \A p \in PlacedSpans :
       /\ \A j \in CoveredRows(p) : BlankAt(j, p[2])
       /\ (/\ LastRowOf(p) <= Len(newLines)
           /\ \A j \in CoveredRows(p) : newLines[j].kinds[p[2]] # "shadow")
          => /\ carryLog[LastRowOf(p)][p[2]] = 0
             /\ \A j \in CoveredRows(p) : newLines[j].kinds[p[2]] = "carry"
  /\ (AfterLastRow /\ WellFormedTable) => CarryAllZero

(* a rowspan of 3 has been carried through both rows below it, in a
   well-formed table whose last row is done *)
RowspanCarried ==
  /\ AfterLastRow /\ WellFormedTable
  /\ \E p \in PlacedSpans :
       /\ RowspanAt(p) = 3 /\ LastRowOf(p) = Len(newLines)
       /\ \A j \in CoveredRows(p) : newLines[j].kinds[p[2]] = "carry"
       /\ carryLog[p[1]][p[2]] = 2

(* the lines emitted in this run, each with the index of its source table:
   those of the replaced tables and those of the table in progress *)
RunLines ==
  UNION {{[src |-> output[k].src, line |-> output[k].lines[i]] :
            i \in 1..Len(output[k].lines)} : k \in 1..Len(output)}
    \cup {[src |-> tableIdx, line |-> newLines[i]] : i \in 1..Len(newLines)}

(* C2: Table identity within one run.  All lines emitted for the same source
   table carry the same tblId, and lines emitted for two different source
   tables never carry the same tblId. *)
TableIdentity ==
  \A x, y \in RunLines : (x.src = y.src) <=> (x.line.meta.tblId = y.line.meta.tblId)

(* two tables of one document have been flattened, one of them into two
   lines *)
TwoTablesFlattened ==
  /\ Len(output) >= 2
  /\ \E k \in 1..Len(output) : Len(output[k].lines) = 2

-----------------------------------------------------------------------------
(* Properties of the tbljson token *)

(* the token of the class list: what follows tbljson- in its first tbljson-
   class *)
Token ==
  LET c == FirstClass(cls, TBLJSON_PREFIX) IN IF c = <<>> THEN <<>> ELSE TokenOf(c[1])

(* the value of the tbljson attribute after the hook: the value it applied,
   the empty string (the value of an attribute that is not set) when it
   applied none *)
CollectedValue ==
  LET hits == {i \in 1..Len(collected) : collected[i].key = "tbljson"}
  IN IF hits = {} THEN <<>> ELSE collected[CHOOSE i \in hits : TRUE].value

(* C4: Metadata round-trip.  For every ASCII string s, dec(enc(s)) = s for
   each enc of the repository, and the attribute-to-class mapping followed
   by the class-to-attribute hook gives back the tbljson attribute value. *)
MetadataRoundTrip ==
  /\ dec(enc(attribValue)) = [ok |-> TRUE, text |-> attribValue]
  /\ dec(encClipboard(attribValue)) = [ok |-> TRUE, text |-> attribValue]
  /\ encPhase \in {"class", "collected"} => dec(Token) = [ok |-> TRUE, text |-> attribValue]
  /\ encPhase = "collected" => CollectedValue = attribValue

(* a value whose token holds "/" (left in by the clipboard enc) or "_" (put
   in by the other) has gone through the class and come back *)
SubstitutedTokenCollected ==
  /\ encPhase = "collected"
  /\ attribValue # <<>>
  /\ "/" \in Range(Token) \/ "_" \in Range(Token) \/ "-" \in Range(Token)
  /\ collected # <<>> /\ collected[1] = [key |-> "tbljson", value |-> attribValue]

(* C5: Token-safe encoding.  The token made by every enc helper holds
   neither "+" nor "/": it consists of letters, digits, "-", "_" and "=". *)
TokenSafeEncoding ==
  encPhase \in {"class", "collected"} =>
    /\ "+" \notin Range(Token)
    /\ "/" \notin Range(Token)

(* the part of C5 that holds: the tokens of enc of transform_common.js and
   index.js *)
TokenSafeEncodingCommon ==
  (encPhase \in {"class", "collected"} /\ encodedBy = "common") =>
    /\ "+" \notin Range(Token)
    /\ "/" \notin Range(Token)

-----------------------------------------------------------------------------
(* Properties of the paste *)

(* the tblIds carried by a sequence of elements: those of the tbljson-
   classes that decode to a metadata record *)
IdsOf(els) ==
  {JSONParse(dec(TokenOf(els[i][j])).text).meta.tblId :
     <<i, j>> \in {p \in (1..Len(els)) \X (1..2) :
                     /\ p[2] <= Len(els[p[1]])
                     /\ StartsWith(els[p[1]][p[2]], TBLJSON_PREFIX)
                     /\ dec(TokenOf(els[p[1]][p[2]])).ok
                     /\ JSONParse(dec(TokenOf(els[p[1]][p[2]])).text).ok}}

(* C3: Fresh identifiers on paste.  When clipboard HTML that holds tbljson-
   encoded table lines is pasted, no inserted line carries a tblId that is
   already present in the destination document. *)
FreshIdsOnPaste ==
  pastePhase = "inserted" => IdsOf(inserted) \cap destIds = {}

(* a table line copied from the destination has been pasted *)
CopiedLinePasted ==
  /\ pastePhase = "inserted"
  /\ IdsOf(inserted) # {}
  /\ destIds # {}

-----------------------------------------------------------------------------
(* Properties of the list numbering hooks *)

(* a step of collectContentPre: the collector comes to an element *)
PreStep == Len(open') = Len(open) + 1

(* a step of collectContentPost: the children of the innermost element are
   done *)
PostStep ==
  /\ open # <<>> /\ Len(open') = Len(open)
  /\ open[Len(open)].step = "in" /\ open'[Len(open)].step = "post"

NotNested == ~listNesting.defined \/ listNesting.val = 0

(* the first item of a top-level ordered list is being collected: an li
   right inside a top-level ol, no counted item and no nested list before
   it *)
FirstItemOpen ==
  /\ Len(open) >= 2
  /\ open[Len(open) - 1].tname = "ol" /\ open[Len(open) - 1].top
  /\ open[Len(open)].tname = "li" /\ open[Len(open)].step \in {"pre", "in"}
  /\ counted = 0 /\ nestedEntered = 0

(* what C8 says of a step of collectContentPre *)
ClearedExactlyAtTopLevelOl ==
  PreStep =>
    (start' = IF open'[Len(open')].tname = "ol" /\ NotNested
                THEN [defined |-> FALSE, val |-> 0] ELSE start)

(* and of a step of collectContentPost *)
NotClearedAfterItem == PostStep => (start'.defined = start.defined)

(* C8: List counter reset.  collectContentPre clears state.start exactly
   when an ol is entered while state.listNesting is empty or zero; entering
   a nested ol or any other element leaves it unchanged, and
   collectContentPost never clears it; so the first item of every top-level
   ordered list is numbered 1. *)
ListCounterReset ==
  /\ [][ClearedExactlyAtTopLevelOl /\ NotClearedAfterItem]_vars
  /\ [](FirstItemOpen => start = [defined |-> TRUE, val |-> 1])

(* the first item of a later top-level list, whose ol made the hook delete
   the count of the list before it, is numbered 1 *)
SecondListRestarted ==
  /\ wasReset
  /\ FirstItemOpen
  /\ start = [defined |-> TRUE, val |-> 1]

InTopLevelList == \E i \in 1..Len(open) : open[i].top /\ open[i].step \in {"in", "post"}

(* what C9 says of a step of collectContentPost *)
AdvancedExactlyAfterCountedItem ==
  PostStep =>
    (start' = IF /\ open[Len(open)].tname = "li"
                 /\ listAttr = "number"
                 /\ "listbreak" \notin Range(open[Len(open)].cls)
                THEN [defined |-> TRUE,
                      val |-> (IF start.defined /\ start.val # 0
                                 THEN start.val ELSE 1) + 1]
                ELSE start)

(* C9: List counter advance.  collectContentPost advances state.start by
   exactly 1 for an li of a numbered list whose classes do not hold
   listbreak, and leaves it unchanged for an li tagged listbreak, an li of
   a list that is not numbered and every other element; hence in a
   top-level list with k counted items so far (no nested list), the next
   ordinal is k + 1. *)
ListCounterAdvance ==
  /\ [][AdvancedExactlyAfterCountedItem]_vars
  /\ []((InTopLevelList /\ nestedEntered = 0) =>
          start = [defined |-> TRUE, val |-> counted + 1])

(* a soft-break line has been collected after a counted item of a top-level
   list: the next ordinal is still 2 *)
SoftBreakSkipped ==
  /\ Len(open) >= 2
  /\ open[Len(open) - 1].tname = "ol" /\ open[Len(open) - 1].top
  /\ open[Len(open)] = [tname |-> "li", cls |-> <<"listbreak">>, step |-> "post",
                         old |-> "none", top |-> FALSE]
  /\ counted = 1 /\ nestedEntered = 0
  /\ start = [defined |-> TRUE, val |-> 2]

-----------------------------------------------------------------------------
(* Properties of the ordered-list flattener *)

(* the number the claim gives the start attribute: the integer written, 1
   when it is absent or not a number *)
StartValue(attr) ==
  CASE attr = <<"3">> -> 3
    [] attr = <<"0">> -> 0
    [] OTHER -> 1

ItemsOf(ol) == SelectSeq(ol.children, LAMBDA c : c.tag = "li")

(* the divs are the li children of the ol in order, the k-th (from 0) with
   the prefix "(s+k). ", and the same holds of the lists nested in each *)
RECURSIVE Numbered(_, _)
Numbered(ol, divs) ==
  /\ Len(divs) = Len(ItemsOf(ol))
  /\ \A k \in 1..Len(divs) :
       /\ divs[k].prefix = IntToString(StartValue(ol.start) + k - 1) \o <<".", " ">>
       /\ Len(divs[k].inner) = Len(ItemsOf(ol)[k].nested)
       /\ \A j \in 1..Len(divs[k].inner) :
            Numbered(ItemsOf(ol)[k].nested[j], divs[k].inner[j])

(* C10: Flattened list numbering.  processOrderedList gives the k-th direct
   li child (k = 0, 1, 2, ..., other children not counted) of an ol the
   prefix "(s+k). ", s being the start attribute (1 when absent or not a
   number); each ol uses its own counter: sibling top-level lists each
   begin at their own start, and a nested ol numbers from its own start
   without changing the numbers of the enclosing list's later items. *)
FlattenedListNumbering ==
  \A i \in 1..Len(flat) : flat[i].done => Numbered(lists[i], flat[i].divs)

(* two sibling lists are flattened: the first holds a nested list in its
   first item and an item after it, numbered 1 and 2; the second, of two
   items, begins at 1 again *)
SiblingAndNestedListsFlattened ==
  /\ Len(flat) = 2 /\ flat[1].done /\ flat[2].done
  /\ lists[1].start = <<>> /\ lists[2].start = <<>>
  /\ Len(flat[1].divs) = 2
  /\ Len(flat[1].divs[1].inner) = 1
  /\ Len(flat[1].divs[1].inner[1]) = 2
  /\ flat[1].divs[1].inner[1][1].prefix = <<"3", ".", " ">>
  /\ flat[1].divs[2].prefix = <<"2", ".", " ">>
  /\ Len(flat[2].divs) = 2
  /\ flat[2].divs[1].prefix = <<"1", ".", " ">>

-----------------------------------------------------------------------------
(* Properties of the image stage *)

(* the images the stage has gone through *)
ImagesDone == 1..imgIdx

IsTriple(nodes) ==
  /\ Len(nodes) = 3
  /\ nodes[1] = TextNode(<<ZWSP>>)
  /\ nodes[2].tag = "span"
  /\ nodes[3] = TextNode(<<ZWSP>>)

HasClass(span, token) == \E k \in 1..Len(span.classes) : span.classes[k] = token

(* the dimensions that are plain numbers above 0, with the tokens the claim
   gives them *)
NumericWidths == {<<"1", "0", "0">>, <<"3">>, <<"1", ".", "5">>}

NumericHeights == {<<"5", "0">>, <<"7">>}

RatioOf(w, h) ==
  CASE w = <<"1", "0", "0">> /\ h = <<"5", "0">> -> <<"2", ".", "0", "0", "0", "0">>
    [] w = <<"1", "0", "0">> /\ h = <<"7">> -> <<"1", "4", ".", "2", "8", "5", "7">>
    [] w = <<"3">> /\ h = <<"5", "0">> -> <<"0", ".", "0", "6", "0", "0">>
    [] w = <<"3">> /\ h = <<"7">> -> <<"0", ".", "4", "2", "8", "6">>
    [] w = <<"1", ".", "5">> /\ h = <<"5", "0">> -> <<"0", ".", "0", "3", "0", "0">>
    [] w = <<"1", ".", "5">> /\ h = <<"7">> -> <<"0", ".", "2", "1", "4", "3">>
    [] OTHER -> <<>>

(* the placeholder of image i has the shape the claim gives it *)
ShapeOf(i) ==
  LET img == images[i]
      nodes == imgOut[i]
  IN /\ IsTriple(nodes)
     /\ img.width \in NumericWidths /\ img.height \in NumericHeights =>
          /\ HasClass(nodes[2], <<"image-width:">> \o img.width \o <<"p", "x">>)
          /\ HasClass(nodes[2], <<"image-height:">> \o img.height \o <<"p", "x">>)
          /\ HasClass(nodes[2], <<"imageCssAspectRatio:">> \o RatioOf(img.width, img.height))
     /\ img.width = <<"5", "0", "%">> => HasClass(nodes[2], <<"image-width:", "5", "0", "%">>)
     /\ img.height = <<"5", "0", "%">> => HasClass(nodes[2], <<"image-height:", "5", "0", "%">>)
     /\ Cardinality({k \in 1..Len(nodes[2].classes) :
                       Head(nodes[2].classes[k]) \in
                         {"image-width:", "image-height:", "imageCssAspectRatio:"}}) <= 3

(* C12: Image placeholder shape.  Every img with a src that the stage has
   gone through stands replaced by exactly one span between two ZWSP text
   nodes; when its width W and height H are plain numbers above 0 the
   span's classes hold image-width:Wpx, image-height:Hpx and
   imageCssAspectRatio: with W/H to 4 decimal places; a percentage is
   passed through unchanged. *)
ImagePlaceholderShape ==
  \A i \in ImagesDone : images[i].src # <<>> => ShapeOf(i)

(* the same of the images that were replaced: every placeholder made has
   the shape *)
ImagePlaceholderShapeWhenReplaced ==
  \A i \in ImagesDone : imgOut[i] # <<ImgNode>> => ShapeOf(i)

(* an img 1.5 wide and 7 high is replaced *)
DecimalRatioPlaceholder ==
  /\ imgIdx = 1 /\ imgOut[1] # <<ImgNode>>
  /\ images[1].width = <<"1", ".", "5">> /\ images[1].height = <<"7">>

(* index.js has gone past a sized img whose relative file it did not read *)
SizedImageSkipped ==
  /\ imgVariant = "import" /\ imgIdx = 1 /\ imgOut[1] = <<ImgNode>>
  /\ images[1].src = <<"a", ".", "p">>
  /\ images[1].width = <<"1", "0", "0">> /\ images[1].height = <<"5", "0">>

(* the identifier of a placeholder: the value of its image-id- token *)
IdTokens(span) ==
  {span.classes[k] : k \in {j \in 1..Len(span.classes) : Head(span.classes[j]) = "image-id-"}}

(* C13: Image identifier length.  Every placeholder carries one image-id-
   token, its value is the span's data-image-id, and it is longer than 10
   characters, whatever the random generator gave. *)
ImageIdentifierLength ==
  \A i \in ImagesDone :
    imgOut[i] # <<ImgNode>> =>
      /\ IdTokens(imgOut[i][2]) = {<<"image-id-">> \o imgOut[i][2].dataImageId}
      /\ Len(imgOut[i][2].dataImageId) > 10

(* the token and the data attribute agree, whatever the length *)
ImageIdentifierDuplicated ==
  \A i \in ImagesDone :
    imgOut[i] # <<ImgNode>> =>
      IdTokens(imgOut[i][2]) = {<<"image-id-">> \o imgOut[i][2].dataImageId}

(* customizeDocument has minted an identifier from two short outcomes of
   rand() *)
ShortIdentifierMinted ==
  /\ imgVariant = "common" /\ imgIdx >= 1 /\ imgOut[1] # <<ImgNode>>
  /\ Len(imgOut[1][2].dataImageId) <= 10

(* ---- the pipeline ---- *)

TreeStages == {"headings", "alignment", "lists", "images", "hyperlinks", "styles", "tables"}

(* the elements of the nodes, at any depth, that carry the class *)
SpansWithClass(nodes, class) ==
  SelectSeq(AllNodes(nodes), LAMBDA n : ~IsText(n) /\ Includes(n.cls, <<class>>))

EndsWithZwsp(n) == IsText(n) /\ n.text # <<>> /\ n.text[Len(n.text)] = ZWSP

StartsWithZwsp(n) == IsText(n) /\ n.text # <<>> /\ n.text[1] = ZWSP

(* the placeholders of the class among the siblings kids that have a ZWSP
   immediately before and immediately after them *)
FlankedAmong(kids, class) ==
  Cardinality({i \in 2..(Len(kids) - 1) :
                 /\ ~IsText(kids[i]) /\ Includes(kids[i].cls, <<class>>)
                 /\ EndsWithZwsp(kids[i - 1]) /\ StartsWithZwsp(kids[i + 1])})

(* the same, at any depth of the nodes *)
RECURSIVE FlankedIn(_, _)
FlankedIn(all, class) ==
  IF all = <<>> THEN 0
  ELSE FlankedAmong(Head(all).kids, class) + FlankedIn(Tail(all), class)

Flanked(nodes, class) == FlankedAmong(nodes, class) + FlankedIn(AllNodes(nodes), class)

NumImages(nodes) == Len(SelectSeq(AllNodes(nodes), IsImg))

\* C11: the image stage replaces every img element by exactly one triple of
\* ZWSP text, placeholder span and ZWSP text, and leaves no img element in
\* the tree, also when the file of a relative image cannot be found or read
ExactlyOnePlaceholderPerImage ==
  [][(Images => (/\ NumImages(doc') = 0
                 /\ Flanked(doc', "image-placeholder") = NumImages(doc)
                 /\ Len(SpansWithClass(doc', "image-placeholder")) = NumImages(doc)))]_vars

(* the image stage has run and an img element is still in the tree *)
ImageLeftInTree == stage = "hyperlinks" /\ NumImages(doc) > 0

\* C14: no stage after the one that made it removes an image or hyperlink
\* placeholder, removes a ZWSP next to it, or puts other text between the
\* ZWSP and the span: the number of flanked placeholders never goes down
PlaceholderFlankingPreserved ==
  [][(/\ ((Hyperlinks \/ Styles \/ Tables \/ Vertical) =>
            Flanked(doc', "image-placeholder") >= Flanked(doc, "image-placeholder"))
      /\ ((Styles \/ Tables \/ Vertical) =>
            Flanked(doc', "hyperlink") >= Flanked(doc, "hyperlink")))]_vars

(* the image stage made a placeholder and after the hyperlink stage the
   tree holds none *)
PlaceholderLostInAnchor ==
  /\ stage = "styles" /\ "images" \in changedBy
  /\ Len(SpansWithClass(doc, "image-placeholder")) = 0

(* the table stage has left a placeholder with a space between the ZWSP
   and the span *)
PlaceholderUnflankedInCell ==
  /\ stage \in {"vertical", "persist"} /\ "tables" \in changedBy
  /\ Len(SpansWithClass(doc, "image-placeholder")) > Flanked(doc, "image-placeholder")

\* C17: the boolean customizeDocument returns, and the flag that decides
\* whether import writes destFile, is true exactly when a stage has changed
\* the tree
ModifiedIffChanged ==
  /\ (pipeVariant = "common" /\ stage = "returned") =>
       ((result = "true") <=> (changedBy # {}))
  /\ (pipeVariant = "import" /\ stage = "persist") => (pipeModified <=> (changedBy # {}))

\* the same for customizeDocument alone
ModifiedIffChangedCommon ==
  (pipeVariant = "common" /\ stage = "returned") => ((result = "true") <=> (changedBy # {}))

\* a table sets the flag only if it gave a line
TableSetsFlagOnlyWithLines ==
  [][(Tables /\ pipeModified' /\ ~pipeModified) => (HasLines(doc) /\ doc' # doc)]_vars

(* import is about to write a file that no stage has changed *)
UnchangedTreeWritten ==
  pipeVariant = "import" /\ stage = "persist" /\ pipeModified /\ changedBy = {}

\* C18: import writes the transformed HTML to destFile at most once and only
\* after every stage has run; when a stage throws, destFile holds no
\* transformed or partly transformed HTML and the hook returns false
AllStagesOrNothing ==
  /\ writes <= 1
  /\ (writes = 1 \/ destFile.state = "transformed") =>
       (/\ ran = TreeStages /\ threwAt = "none" /\ stage = "returned" /\ result = "true"
        /\ destFile = [state |-> "transformed", html |-> doc])
  /\ threwAt \in ImportStages =>
       (/\ writes = 0 /\ destFile.state \in {"absent", "converted"}
        /\ result = "false" /\ stage = "returned")

(* a stage has thrown after an earlier stage had changed the tree *)
ThrownAfterChange ==
  /\ threwAt \in ImportStages /\ changedBy # {} /\ pipeModified
  /\ destFile = [state |-> "converted", html |-> pipeInput]

(* the transformed HTML has been written *)
TransformedWritten == writes = 1 /\ destFile.state = "transformed" /\ doc # pipeInput

(* ---- the flattened lists ---- *)

HasItem(ol) == \E k \in 1..Len(ol.children) : ol.children[k].tag = "li"

(* a div of the fragment holds a div of a nested list *)
HoldsDiv(div) == \E j \in 1..Len(div.inner) : div.inner[j] # <<>>

\* C19: the div elements made for the items of a nested list are siblings
\* of the div of their parent item and no div made by the flattener holds
\* another
FlattenedListsNotNested ==
  \A i \in 1..Len(flat) :
    flat[i].done => \A k \in 1..Len(flat[i].divs) : ~HoldsDiv(flat[i].divs[k])

(* a list whose item holds a list with an item has been flattened *)
NestedListFlattened ==
  \E i \in 1..Len(flat) :
    /\ flat[i].done
    /\ \E k \in 1..Len(lists[i].children) :
         \E j \in 1..Len(lists[i].children[k].nested) : HasItem(lists[i].children[k].nested[j])

\* C20: an ol with no li child is left in the tree as it is and does not
\* set the modified flag
EmptyListIsNoOp ==
  /\ \A i \in 1..Len(lists) : ~HasItem(lists[i]) => ~flat[i].done
  /\ (\A i \in 1..Len(lists) : ~HasItem(lists[i])) => ~listModified

(* an ol without any child has been replaced by its empty fragment *)
EmptyListRemoved ==
  \E i \in 1..Len(lists) :
    lists[i].children = <<>> /\ flat[i] = [done |-> TRUE, divs |-> <<>>] /\ listModified

(* ---- alignment, twice ---- *)

\* C15: the alignment stage changes nothing on a tree that is its own
\* output, also when an aligned element holds another aligned element
AlignmentIdempotent == [][(AlignPass /\ alignPasses = 1) => (alignTree' = alignTree)]_vars

(* an aligned element, not a heading, holds an aligned element, and the
   second run has made a tree that differs from the output of the first *)
SecondPassWrapsAgain ==
  /\ alignPasses = 2
  /\ alignTree # AlignNodes(alignInput, FALSE)
  /\ Wraps(alignInput[1], FALSE) /\ Wraps(alignInput[1].kids[1], FALSE)

(* ---- colours ---- *)

(* the entries of the palette at the least distance from rgb *)
NearestEntries(rgb) ==
  {i \in 1..Len(ColorPalette) :
     \A j \in 1..Len(ColorPalette) :
       Distance2(rgb, ColorPalette[i].rgb) <= Distance2(rgb, ColorPalette[j].rgb)}

(* the first of them in the order black, red, green, blue, yellow, orange *)
FirstNearest(rgb) ==
  <<"black", "red", "green", "blue", "yellow", "orange">>[
    CHOOSE i \in NearestEntries(rgb) : \A j \in NearestEntries(rgb) : i <= j]

\* C16: a colour string that parses gives the RGB value it denotes, and the
\* palette name is, in every run, the first entry in the order black, red,
\* green, blue, yellow, orange among those nearest to that value
ColorQuantization ==
  /\ colorPhase = "map" => parsedRgb = colorInput.rgb
  /\ \A k \in 1..Len(mappedColors) : mappedColors[k] = FirstNearest(colorInput.rgb)

(* a value as far from yellow as from orange, or from black as from
   green, has been mapped twice *)
TieMappedTwice ==
  /\ Len(mappedColors) = 2
  /\ Cardinality(NearestEntries(colorInput.rgb)) > 1
  /\ mappedColors[1] = mappedColors[2]

(* ---- the alignment guarantee ---- *)

IsWrapper(n) == ~IsText(n) /\ n.tag \in {"center", "right", "justify"}

IsBr(n) == ~IsText(n) /\ n.tag = "br"

(* among the siblings kids, every wrapper has a br as its next sibling and
   no second br after that one *)
OneBrAfterWrappers(kids) ==
  \A i \in 1..Len(kids) :
    IsWrapper(kids[i]) =>
      /\ i + 1 <= Len(kids) /\ IsBr(kids[i + 1])
      /\ ~(i + 2 <= Len(kids) /\ IsBr(kids[i + 2]))

(* the same among the children of every node *)
OneBrAfterEveryWrapper(nodes) ==
  /\ OneBrAfterWrappers(nodes)
  /\ \A k \in 1..Len(AllNodes(nodes)) : OneBrAfterWrappers(AllNodes(nodes)[k].kids)

NumWrappers(nodes) == Len(SelectSeq(AllNodes(nodes), IsWrapper))

(* the blocks of the input that the guarantee gives a wrapper: aligned
   right, center or justify, outside any table, no wrapper tag *)
NumAligned(nodes) ==
  Len(SelectSeq(NodesOutsideTables(nodes), LAMBDA n : Wraps(n, FALSE)))

AlignedHeadingIn(nodes) ==
  \E k \in 1..Len(NodesOutsideTables(nodes)) :
    IsHeading(NodesOutsideTables(nodes)[k]) /\ Wraps(NodesOutsideTables(nodes)[k], FALSE)

\* C21: after the alignment stage there is at most one wrapper for every
\* originally aligned block, none where no block is aligned right, center
\* or justify outside a table, and every wrapper is followed by exactly one
\* br, also when the block is a heading that the heading stage surrounded
\* with line breaks
AlignmentGuarantee ==
  (stage = "lists" /\ "alignment" \in ran) =>
    /\ NumWrappers(doc) <= NumAligned(pipeInput)
    /\ OneBrAfterEveryWrapper(doc)

(* the same, for the documents without an aligned heading *)
AlignmentGuaranteeNoHeading ==
  (stage = "lists" /\ "alignment" \in ran /\ ~AlignedHeadingIn(pipeInput)) =>
    /\ NumWrappers(doc) <= NumAligned(pipeInput)
    /\ OneBrAfterEveryWrapper(doc)

(* an aligned heading has got its wrapper, and two br elements follow the
   wrapper *)
WrappedHeadingTwoBreaks ==
  /\ stage = "lists" /\ "alignment" \in ran
  /\ \E i \in 1..(Len(doc) - 2) :
       /\ IsWrapper(doc[i]) /\ Len(doc[i].kids) = 1 /\ IsHeading(doc[i].kids[1])
       /\ IsBr(doc[i + 1]) /\ IsBr(doc[i + 2])

(* ---- one style token per prefix ---- *)

NumTokens(classes, prefix) == Len(SelectSeq(classes, LAMBDA c : Head(c) = prefix))

(* the element before and after the style stage: it has at most one token
   of either prefix, and when the stage has written its class list the
   inline colour and font size are gone *)
OneTokenEach(before, after) ==
  /\ NumTokens(after.cls, "color:") <= 1
  /\ NumTokens(after.cls, "font-size:") <= 1
  /\ (after.cls # before.cls => after.color = <<>> /\ after.fontSize = <<>>)

\* C22: after the style stage every element that had an inline color or
\* font-size carries at most one color: token and at most one font-size:
\* token, a token it had with the same prefix being replaced, and the
\* declarations that were converted are no longer on the element
OneStyleTokenPerPrefix ==
  [][(Styles =>
        \A k \in 1..Len(AllNodes(doc)) :
          IsStyled(AllNodes(doc)[k]) =>
            OneTokenEach(AllNodes(doc)[k], AllNodes(doc')[k]))]_vars

(* the same, of the import copy only *)
OneStyleTokenPerPrefixImport ==
  [][((Styles /\ pipeVariant = "import") =>
        \A k \in 1..Len(AllNodes(doc)) :
          IsStyled(AllNodes(doc)[k]) =>
            OneTokenEach(AllNodes(doc)[k], AllNodes(doc')[k]))]_vars

(* the style stage has run and an element carries two color: tokens or
   two font-size: tokens *)
TwoTokensOfOnePrefix ==
  /\ stage = "tables" /\ "styles" \in changedBy
  /\ \E k \in 1..Len(AllNodes(doc)) :
       /\ ~IsText(AllNodes(doc)[k])
       /\ \/ NumTokens(AllNodes(doc)[k].cls, "color:") = 2
          \/ NumTokens(AllNodes(doc)[k].cls, "font-size:") = 2

(* the import copy has replaced a token of the same prefix *)
TokenReplaced ==
  /\ pipeVariant = "import" /\ stage = "tables" /\ "styles" \in changedBy
  /\ \E k \in 1..Len(AllNodes(doc)) :
       /\ ~IsText(AllNodes(doc)[k])
       /\ AllNodes(doc)[k].cls = <<<<"color:", "red">>>>
       /\ AllNodes(pipeInput)[k].cls = <<<<"color:", "blue">>>>

(* ---- hyperlink normalisation ---- *)

(* decodeURIComponent over the escapes of the sources *)
RECURSIVE PercentDecoded(_)
PercentDecoded(s) ==
  IF s = <<>> THEN <<>>
  ELSE IF Head(s) = "%" /\ Len(s) >= 3
    THEN LET code == <<s[2], s[3]>>
         IN <<CASE code = <<"3", "A">> -> ":"
                [] code = <<"2", "F">> -> "/"
                [] code = <<"3", "B">> -> ";"
                [] code = <<"2", "C">> -> ","
                [] code = <<"2", "0">> -> " "
                [] code = <<"2", "3">> -> "#"
                [] code = <<"2", "5">> -> "%"
                [] code = <<"3", "F">> -> "?"
                [] code = <<"4", "0">> -> "@"
                [] OTHER -> "!">>
            \o PercentDecoded(SubSeq(s, 4, Len(s)))
  ELSE <<Head(s)>> \o PercentDecoded(Tail(s))

(* the href that the token of anchor k encodes *)
EmittedHref(k) == PercentDecoded(Tail(linkOut[k]))

(* the string begins with a recognised prefix, in either case of letters *)
Recognised(s) ==
  \E p \in SchemePrefixes :
    /\ Len(s) >= Len(p)
    /\ \A i \in 1..Len(p) :
         \/ s[i] = p[i]
         \/ \E c \in 1..26 : UpperChars[c] = s[i] /\ LowerChars[c] = p[i]

(* the white space that String.prototype.trim removes, among the
   characters of the inputs *)
WhiteSpace == {" ", LF, NBSP}

(* s without the white space at its ends *)
Trimmed(s) ==
  IF \A i \in 1..Len(s) : s[i] \in WhiteSpace THEN <<>>
  ELSE SubSeq(s, CHOOSE i \in 1..Len(s) :
                   s[i] \notin WhiteSpace /\ \A j \in 1..(i - 1) : s[j] \in WhiteSpace,
                 CHOOSE i \in 1..Len(s) :
                   s[i] \notin WhiteSpace /\ \A j \in (i + 1)..Len(s) : s[j] \in WhiteSpace)

\* C23: for every anchor whose href holds more than white space, the href
\* that its hyperlink- token encodes begins with a recognised prefix; it
\* is the trimmed href when that begins with one and http:// followed by
\* the trimmed href otherwise; and normalising it again gives the same token
HyperlinkNormalization ==
  \A k \in 1..Len(linkOut) :
    Trimmed(anchors[k]) # <<>> =>
      /\ linkOut[k] # <<>> /\ Head(linkOut[k]) = "hyperlink-"
      /\ Recognised(EmittedHref(k))
      /\ EmittedHref(k) =
           IF Recognised(Trimmed(anchors[k])) THEN Trimmed(anchors[k])
           ELSE <<"h", "t", "t", "p", ":", "/", "/">> \o Trimmed(anchors[k])
      /\ LinkTokenOf(AnchorOf(EmittedHref(k))) = linkOut[k]

(* an href without a recognised prefix and with white space around it has
   got its token *)
PrefixAdded ==
  \E k \in 1..Len(linkOut) :
    /\ anchors[k] = <<" ", "w", "w", "w", ".", "a", " ", "b", " ">>
    /\ EmittedHref(k) = <<"h", "t", "t", "p", ":", "/", "/", "w", "w", "w", ".", "a", " ", "b">>

(* an href with a prefix in upper case has got its token *)
UpperCasePrefixKept ==
  \E k \in 1..Len(linkOut) :
    /\ anchors[k] = <<"H", "T", "T", "P", ":", "/", "/", "a">>
    /\ EmittedHref(k) = anchors[k]

(* ---- paste runs ---- *)

InsertionsOf(r) == Len(SelectSeq(editorLog, LAMBDA x : x = r))

(* every image callback of the run has returned, with or without an image *)
EveryImageSettled(r) ==
  \A i \in 1..Len(pasteRuns[r].images) :
    pasteRuns[r].images[i] \in {"done", "failed", "skipped"}

(* a step touches the callback of at most one image, and a callback that
   has returned stays as it is *)
ImagesIndependent ==
  /\ \A r \in 1..Len(pasteRuns) :
       /\ Len(pasteRuns'[r].images) = Len(pasteRuns[r].images)
       /\ \A i \in 1..Len(pasteRuns[r].images) :
            /\ pasteRuns[r].images[i] \in {"done", "failed", "skipped"} =>
                 pasteRuns'[r].images[i] = pasteRuns[r].images[i]
            /\ pasteRuns'[r].images[i] # pasteRuns[r].images[i] =>
                 \A q \in 1..Len(pasteRuns) : \A j \in 1..Len(pasteRuns[q].images) :
                   (q # r \/ j # i) => pasteRuns'[q].images[j] = pasteRuns[q].images[j]

\* C24: the HTML of a paste run is inserted at most once and only after
\* every image callback of the run has returned, with success or failure;
\* a step of one image changes no other image; and once all have returned
\* the insertion does happen, whatever number of them failed
PasteAfterAllImagesSettle ==
  /\ [](\A r \in 1..Len(pasteRuns) :
          /\ InsertionsOf(r) <= 1
          /\ InsertionsOf(r) = 1 => EveryImageSettled(r))
  /\ [][ImagesIndependent]_vars
  /\ \A r \in 1..MaxPastes :
       (r <= Len(pasteRuns) /\ EveryImageSettled(r)) ~> (InsertionsOf(r) = 1)

(* a run of two images, one resolved and one failed, has been inserted *)
FailedAndResolvedInserted ==
  \E r \in 1..Len(pasteRuns) :
    /\ InsertionsOf(r) = 1
    /\ pasteRuns[r].images = <<"failed", "done">>

\* C25: a later paste run neither starts nor inserts while an earlier one
\* is in progress: every run before it has completed, and the insertions
\* are in the order of the paste events
PasteRunsDoNotOverlap ==
  /\ \A r \in 1..Len(pasteRuns) : \A q \in 1..Len(pasteRuns) :
       r < q => pasteRuns[r].completed
  /\ \A k \in 1..(Len(editorLog) - 1) : editorLog[k] < editorLog[k + 1]

(* the second paste was inserted while the first still waits for an image,
   and has written the toast that the first one opened *)
LaterRunInsertedFirst ==
  /\ runVariant = "clipboard"
  /\ Len(pasteRuns) = 2
  /\ editorLog = <<2>>
  /\ ~pasteRuns[1].completed /\ Len(pasteRuns[1].images) > 0
  /\ toastRun = 2

\* C27: every fetch made to resolve an image is bounded by a timeout that
\* counts as a failure of that image, so every paste run that has started
\* eventually completes, also when a remote server never answers
BoundedImageFetches ==
  \A r \in 1..MaxPastes :
    (r <= Len(pasteRuns)) ~> (r <= Len(pasteRuns) /\ pasteRuns[r].completed)

(* a run with an image class that does not decode is never inserted *)
MalformedClassNeverInserted ==
  \A r \in 1..Len(pasteRuns) :
    (\E i \in 1..Len(pasteRuns[r].images) : pasteRuns[r].images[i] = "threw") =>
      InsertionsOf(r) = 0

(* a run is held up by one direct fetch: its other image has failed, and
   nothing has been inserted *)
RunWaitsForOneFetch ==
  \E r \in 1..Len(pasteRuns) :
    /\ pasteRuns[r].images = <<"failed", "direct">>
    /\ ~pasteRuns[r].completed /\ InsertionsOf(r) = 0

(* ---- soft breaks ---- *)

(* the line that soft break b created *)
LinesOfBreak(b) == SelectSeq(edLines, LAMBDA line : line.id = 10 + b)

\* C26: a Shift+Enter in a numbered line inserts one line, and once the
\* deferred step of the keystroke has run the line that the keystroke
\* created carries listbreak, also when that line is blank and when other
\* edits came in between
SoftBreakTagged ==
  \A b \in 1..softBreaks :
    /\ Len(LinesOfBreak(b)) = 1
    /\ b \in fired => LinesOfBreak(b)[1].listbreak

(* the same, for a new line that is not blank, without another edit *)
SoftBreakTaggedWhenNotBlank ==
  \A b \in 1..softBreaks :
    (b \in fired /\ edits = 0 /\ softBreaks = 1 /\ LinesOfBreak(b)[1].len > 0) =>
      LinesOfBreak(b)[1].listbreak

(* the deferred step has run and the blank line of the soft break carries
   no listbreak *)
BlankLineNotTagged ==
  /\ softBreaks = 1 /\ fired = {1} /\ edits = 0
  /\ LinesOfBreak(1)[1].len = 0 /\ ~LinesOfBreak(1)[1].listbreak

(* a line was inserted above between the keystroke and the deferred step,
   which has tagged the line before the new one *)
WrongLineTagged ==
  /\ softBreaks = 1 /\ fired = {1} /\ edits = 1
  /\ LinesOfBreak(1)[1].len > 0 /\ ~LinesOfBreak(1)[1].listbreak
  /\ \E l \in 1..Len(edLines) : edLines[l].id < 10 /\ edLines[l].listbreak


(* ---- C28 ---- *)

NumDelimiters(text) == Cardinality({i \in 1..Len(text) : text[i] = DELIMITER})

(* the selection lies on one line and takes in no delimiter *)
SelectionInOneCell ==
  /\ selStart.line = selEnd.line
  /\ \A k \in (selStart.col + 1)..selEnd.col :
       tpBefore[selStart.line].text[k] # DELIMITER

InsertedTextClean ==
  \A i \in 1..Len(insertedText) : insertedText[i] \notin {DELIMITER, LF, TAB}

(* C28: after a paste with the caret on a table line, the document has
   as many lines as before and the caret line as many delimiters as
   before; the text put into the cell has no delimiter, line feed or
   tab; and when the selection was not inside one cell of one line the
   document is as it was. *)
TableRowIntact ==
  tpPhase \in {"pasted", "aborted"} =>
    /\ Len(tpLines) = Len(tpBefore)
    /\ NumDelimiters(tpLines[selStart.line].text)
         = NumDelimiters(tpBefore[selStart.line].text)
    /\ InsertedTextClean
    /\ ~SelectionInOneCell => tpLines = tpBefore

(* a selection that ends on the next line was pasted over: a line is gone *)
RowMergedByPaste ==
  /\ tpPhase = "pasted"
  /\ selEnd.line > selStart.line
  /\ Len(tpLines) < Len(tpBefore)

(* C28, the part that holds: the inserted text is clean, and a selection
   on one line is pasted over only when it is inside one cell, and then
   the line keeps its delimiters *)
TableRowIntactOnOneLine ==
  /\ tpPhase \in {"pasted", "aborted"} => InsertedTextClean
  /\ tpPhase = "pasted" /\ selStart.line = selEnd.line =>
       /\ SelectionInOneCell
       /\ Len(tpLines) = Len(tpBefore)
       /\ NumDelimiters(tpLines[selStart.line].text)
            = NumDelimiters(tpBefore[selStart.line].text)
  /\ tpPhase = "aborted" => tpLines = tpBefore

(* a paste inside one cell went through with a delimiter, a line feed
   and a tab among its segments *)
PastedInOneCell ==
  /\ tpPhase = "pasted"
  /\ SelectionInOneCell
  /\ selEnd.col > selStart.col
  /\ Len(segments) = 2
  /\ Len(insertedText) > 3


(* ---- C29 ---- *)

(* the logical columns of emitted row j where source cell k was placed *)
ColumnsOfCell(j, k) == {c \in 1..numCols : newLines[j].src[c] = k}

(* source cell k of row j has exactly one column, where its content stands *)
CellPlacedOnce(j, k) ==
  /\ Cardinality(ColumnsOfCell(j, k)) = 1
  /\ \A c \in ColumnsOfCell(j, k) :
       /\ newLines[j].kinds[c] = "src"
       /\ newLines[j].cells[c] \in
            {NormaliseCommon(rows[j][k].content), NormaliseImport(rows[j][k].content)}

(* C29: No source cell is dropped.  Every source cell of every row emitted
   so far is placed in exactly one logical column of the row's line, the
   cells of a row in document order, and its content is in that column;
   rows with columns taken by carried rowspans included. *)
NoSourceCellDropped ==
  \A j \in 1..Len(newLines) :
    /\ \A k \in 1..Len(rows[j]) : CellPlacedOnce(j, k)
    /\ \A k1, k2 \in 1..Len(rows[j]) :
         k1 < k2 => \A c1 \in ColumnsOfCell(j, k1), c2 \in ColumnsOfCell(j, k2) : c1 < c2

(* a row under a carried rowspan has lost a cell: the row has a source cell
   that is in no column of its line *)
CellDroppedUnderRowspan ==
  \E j \in 2..Len(newLines) :
    /\ \E c \in 1..numCols : newLines[j].kinds[c] = "carry"
    /\ \E k \in 1..Len(rows[j]) : ColumnsOfCell(j, k) = {}

(* C29 for the rows with no column taken by a carried rowspan *)
NoSourceCellDroppedWithoutCarry ==
  \A j \in 1..Len(newLines) :
    (\A c \in 1..numCols : newLines[j].kinds[c] # "carry")
      => /\ \A k \in 1..Len(rows[j]) : CellPlacedOnce(j, k)
         /\ \A k1, k2 \in 1..Len(rows[j]) :
              k1 < k2 => \A c1 \in ColumnsOfCell(j, k1), c2 \in ColumnsOfCell(j, k2) : c1 < c2

(* the cells of a row under a carried rowspan all placed, to the right of
   the carried column *)
CellsPlacedBesideCarry ==
  \E j \in 2..Len(newLines) :
    /\ newLines[j].kinds[1] = "carry"
    /\ Len(rows[j]) > 0
    /\ \A k \in 1..Len(rows[j]) : Cardinality(ColumnsOfCell(j, k)) = 1


(* ---- C30 ---- *)

(* of the upstream fetches made for ip, those from the i-th to the j-th
   lie within one window: less than RATE_LIMIT_WINDOW_MS apart *)
WithinOneWindow(ip, i, j) ==
  /\ i <= j
  /\ upstream[ip][j] - upstream[ip][i] < 60000
  /\ upstream[ip][i] - upstream[ip][j] < 60000

AtMostLimitPerWindow ==
  \A ip \in DOMAIN upstream :
    \A i, j \in 1..Len(upstream[ip]) : WithinOneWindow(ip, i, j) => j - i + 1 <= 30

(* the times that count against a client are those of the requests let
   through during the last 60 seconds, and nothing else *)
QuotaIsRequestsLetThrough ==
  fetchAvailable =>
    \A ip \in DOMAIN upstream :
      SelectSeq(rateLimitStore[ip], LAMBDA t : t + 60000 > clock)
        = SelectSeq(upstream[ip], LAMBDA t : t + 60000 > clock)

(* a response 429, 401 or 400 comes with no change of the store and no
   upstream fetch *)
RejectedLeavesQuota ==
  lastStatus' \in {429, 401, 400} =>
    /\ rateLimitStore' = rateLimitStore
    /\ upstream' = upstream

(* C30: Proxy rate limit.  For every client ip, at most 30 of the
   requests let through to the upstream fetch have times within any
   window of 60 seconds; a request answered 429 is not stored, so the
   client is blocked by the requests let through in the last 60 seconds
   only; and a request answered 401 or 400 changes no quota and makes no
   upstream fetch. *)
ProxyRateLimit ==
  /\ [](AtMostLimitPerWindow /\ QuotaIsRequestsLetThrough)
  /\ [][RejectedLeavesQuota]_vars

(* a client with 30 requests let through at time 0 is answered 429 half a
   minute later *)
BlockedClientAnswered429 ==
  /\ lastStatus = 429
  /\ clock = 30000
  /\ \E ip \in DOMAIN upstream :
       /\ Len(upstream[ip]) = 30
       /\ \A i \in 1..30 : upstream[ip][i] = 0

(* the same client is let through again when the 60 seconds are over *)
LetThroughAfterWindow ==
  \E ip \in DOMAIN upstream :
    /\ Len(upstream[ip]) = 31
    /\ upstream[ip][30] = 0 /\ upstream[ip][31] = 60000
    /\ rateLimitStore[ip] = <<60000>>

(* a request is rejected early while the client has quota in the store *)
RejectedEarlyWithQuota ==
  /\ lastStatus \in {400, 401}
  /\ \E ip \in DOMAIN rateLimitStore : Len(rateLimitStore[ip]) > 0

=============================================================================
